---- MODULE Spec2Model ----
(***************************************************************************)
(* A model of cargo-bundle's Debian packaging core:                        *)
(*   - file::resource_relpath (the path normalizer) and the staging of     *)
(*     resources by transfer_resource_files,                               *)
(*   - Category::from_str (the category resolver),                         *)
(*   - generate_control_file (Installed-Size and the description block),   *)
(*   - bundle_project / create_archive (the assembly pipeline).            *)
(*                                                                         *)
(* Text is modelled as a sequence of one-character strings, a path as the  *)
(* record [prefix, root, segs] of its lexical parts.                       *)
(***************************************************************************)
EXTENDS Integers, Sequences, FiniteSets, TLC

VARIABLES
    \* path specification: one resource path being normalised and staged
    p_pc, p_src, p_out, p_dest,
    \* category specification: one string being resolved
    c_pc, c_input, c_result,
    \* control-file specification: one call of generate_control_file
    k_pc, k_settings, k_total, k_file,
    \* assembly specification: one run of bundle_project
    pc, settings, resources, ri, existed, staging, artifact, result,
    \* file specification: calls of file::copy, file::copy_dir, file::create
    f_pc, f_fs, f_before, f_op, f_result,
    \* manifest specification: runs of generate_md5sums over one payload
    m_pc, m_tree, m_runs,
    \* respelling specification: one string and a respelling of it resolved
    e_pc, e_input, e_result, e_edit, e_edited, e_edited_result

pathVars == <<p_pc, p_src, p_out, p_dest>>
catVars == <<c_pc, c_input, c_result>>
ctlVars == <<k_pc, k_settings, k_total, k_file>>
bundleVars == <<pc, settings, resources, ri, existed, staging, artifact, result>>
fileVars == <<f_pc, f_fs, f_before, f_op, f_result>>
manVars == <<m_pc, m_tree, m_runs>>
editVars == <<e_pc, e_input, e_result, e_edit, e_edited, e_edited_result>>

vars == <<p_pc, p_src, p_out, p_dest, c_pc, c_input, c_result,
          k_pc, k_settings, k_total, k_file,
          pc, settings, resources, ri, existed, staging, artifact, result,
          f_pc, f_fs, f_before, f_op, f_result, m_pc, m_tree, m_runs,
          e_pc, e_input, e_result, e_edit, e_edited, e_edited_result>>

(***************************************************************************)
(* Generic helpers                                                         *)
(***************************************************************************)
SeqsUpTo(S, n) == UNION {[1..k -> S] : k \in 0..n}

RECURSIVE Concat(_)
Concat(ss) == IF ss = <<>> THEN <<>> ELSE Head(ss) \o Concat(Tail(ss))

IsPrefixOf(s, t) == Len(s) <= Len(t) /\ SubSeq(t, 1, Len(s)) = s

(***************************************************************************)
(* Paths (std::path as used by src/file.rs)                                *)
(***************************************************************************)
\* Longest raw path, in segments, that the path specification draws.
MaxSegs == 3

\* The raw segments between separators: empty (a doubled or trailing
\* separator), current directory, parent directory, ordinary names, and
\* ordinary names that spell the two sentinels.
RawSegs == {"", ".", "..", "a", "b", "x", "_up_", "_root_"}

\* Platform prefixes: none (every Unix path) or one of two drives.
Prefixes == {"", "C:", "D:"}

NoPath == [prefix |-> "", root |-> FALSE, segs |-> <<>>]

\* A relative path never starts with an empty segment: that separator would
\* be the root.
PathInputs ==
    {[prefix |-> pr, root |-> r, segs |-> s] :
        pr \in Prefixes, r \in BOOLEAN, s \in SeqsUpTo(RawSegs, MaxSegs)}
    \ {p \in [prefix : Prefixes, root : {FALSE}, segs : SeqsUpTo(RawSegs, MaxSegs)] :
        p.segs # <<>> /\ p.segs[1] = ""}

\* Path::components(): the prefix, the root, then the segments; empty
\* segments are skipped, "." is skipped unless it leads a rootless path.
RECURSIVE SegComponents(_, _)
SegComponents(segs, first) ==
    IF segs = <<>> THEN <<>>
    ELSE LET s == Head(segs)
             rest == SegComponents(Tail(segs), FALSE)
         IN  CASE s = ""   -> rest
               [] s = "."  -> IF first THEN <<[kind |-> "CurDir", name |-> "."]>> \o rest
                              ELSE rest
               [] s = ".." -> <<[kind |-> "ParentDir", name |-> ".."]>> \o rest
               [] OTHER    -> <<[kind |-> "Normal", name |-> s]>> \o rest

Components(path) ==
    (IF path.prefix # "" THEN <<[kind |-> "Prefix", name |-> path.prefix]>> ELSE <<>>)
    \o (IF path.root THEN <<[kind |-> "RootDir", name |-> "/"]>> ELSE <<>>)
    \o SegComponents(path.segs, ~path.root)

IsAbsoluteOrPrefixed(path) == path.root \/ path.prefix # ""

\* PathBuf::push / Path::join: an absolute (or prefixed) argument replaces
\* the path, a relative one is appended.
Join(base, path) ==
    IF IsAbsoluteOrPrefixed(path) THEN path
    ELSE [base EXCEPT !.segs = @ \o path.segs]

Rel(segs) == [prefix |-> "", root |-> FALSE, segs |-> segs]

\* A faulty variant of PushedFor: a parent reference is pushed as it is.
PushedFor_KeepParent(c) ==
    CASE c.kind = "Prefix"    -> Rel(<<>>)
      [] c.kind = "RootDir"   -> Rel(<<"_root_">>)
      [] c.kind = "CurDir"    -> Rel(<<>>)
      [] c.kind = "ParentDir" -> Rel(<<"..">>)
      [] OTHER                -> Rel(<<c.name>>)

\* A faulty variant of PushedFor: the root is pushed as it is.
PushedFor_KeepRoot(c) ==
    CASE c.kind = "Prefix"    -> Rel(<<>>)
      [] c.kind = "RootDir"   -> [prefix |-> "", root |-> TRUE, segs |-> <<>>]
      [] c.kind = "CurDir"    -> Rel(<<>>)
      [] c.kind = "ParentDir" -> Rel(<<"_up_">>)
      [] OTHER                -> Rel(<<c.name>>)

\* One arm of the match in resource_relpath: the path pushed for a component.
PushedFor(c) ==
    CASE c.kind = "Prefix"    -> Rel(<<>>)
      [] c.kind = "RootDir"   -> Rel(<<"_root_">>)
      [] c.kind = "CurDir"    -> Rel(<<>>)
      [] c.kind = "ParentDir" -> Rel(<<"_up_">>)
      [] OTHER                -> Rel(<<c.name>>)

RECURSIVE PushAll(_, _)
PushAll(dest, comps) ==
    IF comps = <<>> THEN dest
    ELSE PushAll(Join(dest, PushedFor(Head(comps))), Tail(comps))

resource_relpath(path) == PushAll(NoPath, Components(path))

\* data_dir.join("usr/lib").join(settings.binary_name()), relative to the
\* staging directory.
BinaryName == "foo"
DataDir == Rel(<<"data">>)
ResourceDir == Join(Join(DataDir, Rel(<<"usr", "lib">>)), Rel(<<BinaryName>>))

(***************************************************************************)
(* Text helpers (str methods used by src/category.rs and deb_bundle.rs)    *)
(***************************************************************************)
UpperChars ==
    <<"A", "B", "C", "D", "E", "F", "G", "H", "I", "J", "K", "L", "M",
      "N", "O", "P", "Q", "R", "S", "T", "U", "V", "W", "X", "Y", "Z">>

LowerChars ==
    <<"a", "b", "c", "d", "e", "f", "g", "h", "i", "j", "k", "l", "m",
      "n", "o", "p", "q", "r", "s", "t", "u", "v", "w", "x", "y", "z">>

LowerChar(c) ==
    IF \E i \in DOMAIN UpperChars : UpperChars[i] = c
    THEN LowerChars[CHOOSE i \in DOMAIN UpperChars : UpperChars[i] = c]
    ELSE c

\* A faulty variant of to_ascii_lowercase: the text is left as it is.
to_ascii_lowercase_Kept(s) == s

\* str::to_ascii_lowercase
to_ascii_lowercase(s) == [i \in 1..Len(s) |-> LowerChar(s[i])]

\* str::starts_with
starts_with(s, prefix) == IsPrefixOf(prefix, s)

\* A faulty variant of RemoveChar: only the first occurrence is removed.
RemoveFirstChar(s, c) ==
    IF \E i \in 1..Len(s) : s[i] = c
    THEN LET k == CHOOSE i \in 1..Len(s) : s[i] = c /\ \A j \in 1..(i - 1) : s[j] # c
         IN  SubSeq(s, 1, k - 1) \o SubSeq(s, k + 1, Len(s))
    ELSE s

\* str::replace(c, ""): every occurrence of the character is removed.
RemoveChar(s, c) == SelectSeq(s, LAMBDA x : x # c)

(***************************************************************************)
(* Exact rationals [n, d] with n >= 0 and d > 0, standing for the f64      *)
(* scores of strsim::jaro_winkler.                                         *)
(***************************************************************************)
Rat(n, d) == [n |-> n, d |-> d]

\* a/b < c/d by the Euclidean expansion, so that no product is formed.
RECURSIVE FracLess(_, _, _, _)
FracLess(a, b, c, d) ==
    LET qa == a \div b
        qc == c \div d
        ra == a % b
        rc == c % d
    IN  IF qa # qc THEN qa < qc
        ELSE IF rc = 0 THEN FALSE
        ELSE IF ra = 0 THEN TRUE
        ELSE FracLess(d, rc, b, ra)

RatLess(x, y) == FracLess(x.n, x.d, y.n, y.d)
RatLeq(x, y) == ~RatLess(y, x)
RatEq(x, y) == ~RatLess(x, y) /\ ~RatLess(y, x)

(***************************************************************************)
(* strsim::jaro_winkler, the metric Category::from_str calls                *)
(***************************************************************************)
MinOf(S) == CHOOSE x \in S : \A y \in S : x <= y
Max2(a, b) == IF a >= b THEN a ELSE b
Min2(a, b) == IF a <= b THEN a ELSE b

\* One iteration of the matching loop of jaro, for position i of a: the
\* first free position of b in the search window that holds the same
\* character is consumed. acc holds the positions of b (1-based) already
\* consumed, the matches and transpositions counted so far, and the last
\* matched position of b.
JaroStep(a, b, range, acc, i) ==
    LET lo == IF i - 1 > range THEN i - range ELSE 1
        hi == Min2(Len(b), i + range)
        free == {j \in lo..hi : b[j] = a[i] /\ j \notin acc.consumed}
    IN  IF free = {} THEN acc
        ELSE LET j == MinOf(free)
             IN  [consumed |-> acc.consumed \cup {j},
                  matches |-> acc.matches + 1,
                  transpositions |-> acc.transpositions
                                     + (IF j < acc.b_match_index THEN 1 ELSE 0),
                  b_match_index |-> j]

\* The iterations lo..hi of that loop, in order. The range is halved, and
\* the first half is evaluated before the second half starts (once every
\* position of b is consumed no later iteration can match), so that the
\* evaluation stays shallow.
RECURSIVE JaroLoop(_, _, _, _, _, _)
JaroLoop(a, b, range, acc, lo, hi) ==
    IF lo > hi THEN acc
    ELSE IF lo = hi THEN JaroStep(a, b, range, acc, lo)
    ELSE LET first == JaroLoop(a, b, range, acc, lo, (lo + hi) \div 2)
         IN  IF first.matches = Len(b) THEN first
             ELSE JaroLoop(a, b, range, first, ((lo + hi) \div 2) + 1, hi)

jaro(a, b) ==
    IF Len(a) = 0 /\ Len(b) = 0 THEN Rat(1, 1)
    ELSE IF Len(a) = 0 \/ Len(b) = 0 THEN Rat(0, 1)
    ELSE IF Len(a) = 1 /\ Len(b) = 1 THEN (IF a = b THEN Rat(1, 1) ELSE Rat(0, 1))
    ELSE LET range == (Max2(Len(a), Len(b)) \div 2) - 1
             acc == JaroLoop(a, b, range,
                        [consumed |-> {}, matches |-> 0, transpositions |-> 0,
                         b_match_index |-> 1],
                        1, Len(a))
             m == acc.matches
             t == acc.transpositions
         IN  IF m = 0 THEN Rat(0, 1)
             \* (1/3) * (m/|a| + m/|b| + (m - t)/m)
             ELSE Rat(m * m * Len(b) + m * m * Len(a) + (m - t) * Len(a) * Len(b),
                      3 * Len(a) * Len(b) * m)

\* a.zip(b).take_while(equal).count()
CommonPrefixLen(a, b) ==
    CHOOSE k \in 0..Min2(Len(a), Len(b)) :
        /\ \A i \in 1..k : a[i] = b[i]
        /\ k < Min2(Len(a), Len(b)) => a[k + 1] # b[k + 1]

\* jaro + 0.1 * prefix * (1 - jaro), capped at 1.
jaro_winkler(a, b) ==
    LET j == jaro(a, b)
        p == CommonPrefixLen(a, b)
        n == 10 * j.n + p * (j.d - j.n)
        d == 10 * j.d
    IN  IF n <= d THEN Rat(n, d) ELSE Rat(1, 1)

(***************************************************************************)
(* Category (src/category.rs)                                              *)
(***************************************************************************)
\* const CONFIDENCE_THRESHOLD: f64 = 0.8
CONFIDENCE_THRESHOLD == Rat(4, 5)

\* const OSX_APP_CATEGORY_PREFIX = "public.app-category."
OSX_APP_CATEGORY_PREFIX ==
    <<"p", "u", "b", "l", "i", "c", ".", "a", "p", "p", "-",
      "c", "a", "t", "e", "g", "o", "r", "y", ".">>

\* enum Category
Category ==
    {"Business", "DeveloperTool", "Education", "Entertainment",
     "Finance", "Game", "ActionGame", "AdventureGame",
     "ArcadeGame", "BoardGame", "CardGame", "CasinoGame",
     "DiceGame", "EducationalGame", "FamilyGame", "KidsGame",
     "MusicGame", "PuzzleGame", "RacingGame", "RolePlayingGame",
     "SimulationGame", "SportsGame", "StrategyGame", "TriviaGame",
     "WordGame", "GraphicsAndDesign", "HealthcareAndFitness", "Lifestyle",
     "Medical", "Music", "News", "Photography",
     "Productivity", "Reference", "SocialNetworking", "Sports",
     "Travel", "Utility", "Video", "Weather"}

\* Category::canonical
canonical(category) ==
    CASE category = "Business" -> <<"B", "u", "s", "i", "n", "e", "s", "s">>
      [] category = "DeveloperTool" -> <<"D", "e", "v", "e", "l", "o", "p", "e", "r", " ", "T", "o", "o", "l">>
      [] category = "Education" -> <<"E", "d", "u", "c", "a", "t", "i", "o", "n">>
      [] category = "Entertainment" -> <<"E", "n", "t", "e", "r", "t", "a", "i", "n", "m", "e", "n", "t">>
      [] category = "Finance" -> <<"F", "i", "n", "a", "n", "c", "e">>
      [] category = "Game" -> <<"G", "a", "m", "e">>
      [] category = "ActionGame" -> <<"A", "c", "t", "i", "o", "n", " ", "G", "a", "m", "e">>
      [] category = "AdventureGame" -> <<"A", "d", "v", "e", "n", "t", "u", "r", "e", " ", "G", "a", "m", "e">>
      [] category = "ArcadeGame" -> <<"A", "r", "c", "a", "d", "e", " ", "G", "a", "m", "e">>
      [] category = "BoardGame" -> <<"B", "o", "a", "r", "d", " ", "G", "a", "m", "e">>
      [] category = "CardGame" -> <<"C", "a", "r", "d", " ", "G", "a", "m", "e">>
      [] category = "CasinoGame" -> <<"C", "a", "s", "i", "n", "o", " ", "G", "a", "m", "e">>
      [] category = "DiceGame" -> <<"D", "i", "c", "e", " ", "G", "a", "m", "e">>
      [] category = "EducationalGame" -> <<"E", "d", "u", "c", "a", "t", "i", "o", "n", "a", "l", " ", "G", "a", "m", "e">>
      [] category = "FamilyGame" -> <<"F", "a", "m", "i", "l", "y", " ", "G", "a", "m", "e">>
      [] category = "KidsGame" -> <<"K", "i", "d", "s", " ", "G", "a", "m", "e">>
      [] category = "MusicGame" -> <<"M", "u", "s", "i", "c", " ", "G", "a", "m", "e">>
      [] category = "PuzzleGame" -> <<"P", "u", "z", "z", "l", "e", " ", "G", "a", "m", "e">>
      [] category = "RacingGame" -> <<"R", "a", "c", "i", "n", "g", " ", "G", "a", "m", "e">>
      [] category = "RolePlayingGame" -> <<"R", "o", "l", "e", "-", "P", "l", "a", "y", "i", "n", "g", " ", "G", "a", "m", "e">>
      [] category = "SimulationGame" -> <<"S", "i", "m", "u", "l", "a", "t", "i", "o", "n", " ", "G", "a", "m", "e">>
      [] category = "SportsGame" -> <<"S", "p", "o", "r", "t", "s", " ", "G", "a", "m", "e">>
      [] category = "StrategyGame" -> <<"S", "t", "r", "a", "t", "e", "g", "y", " ", "G", "a", "m", "e">>
      [] category = "TriviaGame" -> <<"T", "r", "i", "v", "i", "a", " ", "G", "a", "m", "e">>
      [] category = "WordGame" -> <<"W", "o", "r", "d", " ", "G", "a", "m", "e">>
      [] category = "GraphicsAndDesign" -> <<"G", "r", "a", "p", "h", "i", "c", "s", " ", "a", "n", "d", " ", "D", "e", "s", "i", "g", "n">>
      [] category = "HealthcareAndFitness" -> <<"H", "e", "a", "l", "t", "h", "c", "a", "r", "e", " ", "a", "n", "d", " ", "F", "i", "t", "n", "e", "s", "s">>
      [] category = "Lifestyle" -> <<"L", "i", "f", "e", "s", "t", "y", "l", "e">>
      [] category = "Medical" -> <<"M", "e", "d", "i", "c", "a", "l">>
      [] category = "Music" -> <<"M", "u", "s", "i", "c">>
      [] category = "News" -> <<"N", "e", "w", "s">>
      [] category = "Photography" -> <<"P", "h", "o", "t", "o", "g", "r", "a", "p", "h", "y">>
      [] category = "Productivity" -> <<"P", "r", "o", "d", "u", "c", "t", "i", "v", "i", "t", "y">>
      [] category = "Reference" -> <<"R", "e", "f", "e", "r", "e", "n", "c", "e">>
      [] category = "SocialNetworking" -> <<"S", "o", "c", "i", "a", "l", " ", "N", "e", "t", "w", "o", "r", "k", "i", "n", "g">>
      [] category = "Sports" -> <<"S", "p", "o", "r", "t", "s">>
      [] category = "Travel" -> <<"T", "r", "a", "v", "e", "l">>
      [] category = "Utility" -> <<"U", "t", "i", "l", "i", "t", "y">>
      [] category = "Video" -> <<"V", "i", "d", "e", "o">>
      [] category = "Weather" -> <<"W", "e", "a", "t", "h", "e", "r">>

\* Category::osx_application_category_type
osx_application_category_type(category) ==
    CASE category = "Business" -> <<"p", "u", "b", "l", "i", "c", ".", "a", "p", "p", "-", "c", "a", "t", "e", "g", "o", "r", "y", ".", "b", "u", "s", "i", "n", "e", "s", "s">>
      [] category = "DeveloperTool" -> <<"p", "u", "b", "l", "i", "c", ".", "a", "p", "p", "-", "c", "a", "t", "e", "g", "o", "r", "y", ".", "d", "e", "v", "e", "l", "o", "p", "e", "r", "-", "t", "o", "o", "l", "s">>
      [] category = "Education" -> <<"p", "u", "b", "l", "i", "c", ".", "a", "p", "p", "-", "c", "a", "t", "e", "g", "o", "r", "y", ".", "e", "d", "u", "c", "a", "t", "i", "o", "n">>
      [] category = "Entertainment" -> <<"p", "u", "b", "l", "i", "c", ".", "a", "p", "p", "-", "c", "a", "t", "e", "g", "o", "r", "y", ".", "e", "n", "t", "e", "r", "t", "a", "i", "n", "m", "e", "n", "t">>
      [] category = "Finance" -> <<"p", "u", "b", "l", "i", "c", ".", "a", "p", "p", "-", "c", "a", "t", "e", "g", "o", "r", "y", ".", "f", "i", "n", "a", "n", "c", "e">>
      [] category = "Game" -> <<"p", "u", "b", "l", "i", "c", ".", "a", "p", "p", "-", "c", "a", "t", "e", "g", "o", "r", "y", ".", "g", "a", "m", "e", "s">>
      [] category = "ActionGame" -> <<"p", "u", "b", "l", "i", "c", ".", "a", "p", "p", "-", "c", "a", "t", "e", "g", "o", "r", "y", ".", "a", "c", "t", "i", "o", "n", "-", "g", "a", "m", "e", "s">>
      [] category = "AdventureGame" -> <<"p", "u", "b", "l", "i", "c", ".", "a", "p", "p", "-", "c", "a", "t", "e", "g", "o", "r", "y", ".", "a", "d", "v", "e", "n", "t", "u", "r", "e", "-", "g", "a", "m", "e", "s">>
      [] category = "ArcadeGame" -> <<"p", "u", "b", "l", "i", "c", ".", "a", "p", "p", "-", "c", "a", "t", "e", "g", "o", "r", "y", ".", "a", "r", "c", "a", "d", "e", "-", "g", "a", "m", "e", "s">>
      [] category = "BoardGame" -> <<"p", "u", "b", "l", "i", "c", ".", "a", "p", "p", "-", "c", "a", "t", "e", "g", "o", "r", "y", ".", "b", "o", "a", "r", "d", "-", "g", "a", "m", "e", "s">>
      [] category = "CardGame" -> <<"p", "u", "b", "l", "i", "c", ".", "a", "p", "p", "-", "c", "a", "t", "e", "g", "o", "r", "y", ".", "c", "a", "r", "d", "-", "g", "a", "m", "e", "s">>
      [] category = "CasinoGame" -> <<"p", "u", "b", "l", "i", "c", ".", "a", "p", "p", "-", "c", "a", "t", "e", "g", "o", "r", "y", ".", "c", "a", "s", "i", "n", "o", "-", "g", "a", "m", "e", "s">>
      [] category = "DiceGame" -> <<"p", "u", "b", "l", "i", "c", ".", "a", "p", "p", "-", "c", "a", "t", "e", "g", "o", "r", "y", ".", "d", "i", "c", "e", "-", "g", "a", "m", "e", "s">>
      [] category = "EducationalGame" -> <<"p", "u", "b", "l", "i", "c", ".", "a", "p", "p", "-", "c", "a", "t", "e", "g", "o", "r", "y", ".", "e", "d", "u", "c", "a", "t", "i", "o", "n", "a", "l", "-", "g", "a", "m", "e", "s">>
      [] category = "FamilyGame" -> <<"p", "u", "b", "l", "i", "c", ".", "a", "p", "p", "-", "c", "a", "t", "e", "g", "o", "r", "y", ".", "f", "a", "m", "i", "l", "y", "-", "g", "a", "m", "e", "s">>
      [] category = "KidsGame" -> <<"p", "u", "b", "l", "i", "c", ".", "a", "p", "p", "-", "c", "a", "t", "e", "g", "o", "r", "y", ".", "k", "i", "d", "s", "-", "g", "a", "m", "e", "s">>
      [] category = "MusicGame" -> <<"p", "u", "b", "l", "i", "c", ".", "a", "p", "p", "-", "c", "a", "t", "e", "g", "o", "r", "y", ".", "m", "u", "s", "i", "c", "-", "g", "a", "m", "e", "s">>
      [] category = "PuzzleGame" -> <<"p", "u", "b", "l", "i", "c", ".", "a", "p", "p", "-", "c", "a", "t", "e", "g", "o", "r", "y", ".", "p", "u", "z", "z", "l", "e", "-", "g", "a", "m", "e", "s">>
      [] category = "RacingGame" -> <<"p", "u", "b", "l", "i", "c", ".", "a", "p", "p", "-", "c", "a", "t", "e", "g", "o", "r", "y", ".", "r", "a", "c", "i", "n", "g", "-", "g", "a", "m", "e", "s">>
      [] category = "RolePlayingGame" -> <<"p", "u", "b", "l", "i", "c", ".", "a", "p", "p", "-", "c", "a", "t", "e", "g", "o", "r", "y", ".", "r", "o", "l", "e", "-", "p", "l", "a", "y", "i", "n", "g", "-", "g", "a", "m", "e", "s">>
      [] category = "SimulationGame" -> <<"p", "u", "b", "l", "i", "c", ".", "a", "p", "p", "-", "c", "a", "t", "e", "g", "o", "r", "y", ".", "s", "i", "m", "u", "l", "a", "t", "i", "o", "n", "-", "g", "a", "m", "e", "s">>
      [] category = "SportsGame" -> <<"p", "u", "b", "l", "i", "c", ".", "a", "p", "p", "-", "c", "a", "t", "e", "g", "o", "r", "y", ".", "s", "p", "o", "r", "t", "s", "-", "g", "a", "m", "e", "s">>
      [] category = "StrategyGame" -> <<"p", "u", "b", "l", "i", "c", ".", "a", "p", "p", "-", "c", "a", "t", "e", "g", "o", "r", "y", ".", "s", "t", "r", "a", "t", "e", "g", "y", "-", "g", "a", "m", "e", "s">>
      [] category = "TriviaGame" -> <<"p", "u", "b", "l", "i", "c", ".", "a", "p", "p", "-", "c", "a", "t", "e", "g", "o", "r", "y", ".", "t", "r", "i", "v", "i", "a", "-", "g", "a", "m", "e", "s">>
      [] category = "WordGame" -> <<"p", "u", "b", "l", "i", "c", ".", "a", "p", "p", "-", "c", "a", "t", "e", "g", "o", "r", "y", ".", "w", "o", "r", "d", "-", "g", "a", "m", "e", "s">>
      [] category = "GraphicsAndDesign" -> <<"p", "u", "b", "l", "i", "c", ".", "a", "p", "p", "-", "c", "a", "t", "e", "g", "o", "r", "y", ".", "g", "r", "a", "p", "h", "i", "c", "s", "-", "d", "e", "s", "i", "g", "n">>
      [] category = "HealthcareAndFitness" -> <<"p", "u", "b", "l", "i", "c", ".", "a", "p", "p", "-", "c", "a", "t", "e", "g", "o", "r", "y", ".", "h", "e", "a", "l", "t", "h", "c", "a", "r", "e", "-", "f", "i", "t", "n", "e", "s", "s">>
      [] category = "Lifestyle" -> <<"p", "u", "b", "l", "i", "c", ".", "a", "p", "p", "-", "c", "a", "t", "e", "g", "o", "r", "y", ".", "l", "i", "f", "e", "s", "t", "y", "l", "e">>
      [] category = "Medical" -> <<"p", "u", "b", "l", "i", "c", ".", "a", "p", "p", "-", "c", "a", "t", "e", "g", "o", "r", "y", ".", "m", "e", "d", "i", "c", "a", "l">>
      [] category = "Music" -> <<"p", "u", "b", "l", "i", "c", ".", "a", "p", "p", "-", "c", "a", "t", "e", "g", "o", "r", "y", ".", "m", "u", "s", "i", "c">>
      [] category = "News" -> <<"p", "u", "b", "l", "i", "c", ".", "a", "p", "p", "-", "c", "a", "t", "e", "g", "o", "r", "y", ".", "n", "e", "w", "s">>
      [] category = "Photography" -> <<"p", "u", "b", "l", "i", "c", ".", "a", "p", "p", "-", "c", "a", "t", "e", "g", "o", "r", "y", ".", "p", "h", "o", "t", "o", "g", "r", "a", "p", "h", "y">>
      [] category = "Productivity" -> <<"p", "u", "b", "l", "i", "c", ".", "a", "p", "p", "-", "c", "a", "t", "e", "g", "o", "r", "y", ".", "p", "r", "o", "d", "u", "c", "t", "i", "v", "i", "t", "y">>
      [] category = "Reference" -> <<"p", "u", "b", "l", "i", "c", ".", "a", "p", "p", "-", "c", "a", "t", "e", "g", "o", "r", "y", ".", "r", "e", "f", "e", "r", "e", "n", "c", "e">>
      [] category = "SocialNetworking" -> <<"p", "u", "b", "l", "i", "c", ".", "a", "p", "p", "-", "c", "a", "t", "e", "g", "o", "r", "y", ".", "s", "o", "c", "i", "a", "l", "-", "n", "e", "t", "w", "o", "r", "k", "i", "n", "g">>
      [] category = "Sports" -> <<"p", "u", "b", "l", "i", "c", ".", "a", "p", "p", "-", "c", "a", "t", "e", "g", "o", "r", "y", ".", "s", "p", "o", "r", "t", "s">>
      [] category = "Travel" -> <<"p", "u", "b", "l", "i", "c", ".", "a", "p", "p", "-", "c", "a", "t", "e", "g", "o", "r", "y", ".", "t", "r", "a", "v", "e", "l">>
      [] category = "Utility" -> <<"p", "u", "b", "l", "i", "c", ".", "a", "p", "p", "-", "c", "a", "t", "e", "g", "o", "r", "y", ".", "u", "t", "i", "l", "i", "t", "i", "e", "s">>
      [] category = "Video" -> <<"p", "u", "b", "l", "i", "c", ".", "a", "p", "p", "-", "c", "a", "t", "e", "g", "o", "r", "y", ".", "v", "i", "d", "e", "o">>
      [] category = "Weather" -> <<"p", "u", "b", "l", "i", "c", ".", "a", "p", "p", "-", "c", "a", "t", "e", "g", "o", "r", "y", ".", "w", "e", "a", "t", "h", "e", "r">>

\* const CATEGORY_STRINGS, in table order
CATEGORY_STRINGS ==
    << [string |-> <<"a", "c", "t", "i", "o", "n", "g", "a", "m", "e">>, category |-> "ActionGame"],
       [string |-> <<"a", "c", "t", "i", "o", "n", "g", "a", "m", "e", "s">>, category |-> "ActionGame"],
       [string |-> <<"a", "d", "v", "e", "n", "t", "u", "r", "e", "g", "a", "m", "e">>, category |-> "AdventureGame"],
       [string |-> <<"a", "d", "v", "e", "n", "t", "u", "r", "e", "g", "a", "m", "e", "s">>, category |-> "AdventureGame"],
       [string |-> <<"a", "r", "c", "a", "d", "e", "g", "a", "m", "e">>, category |-> "ArcadeGame"],
       [string |-> <<"a", "r", "c", "a", "d", "e", "g", "a", "m", "e", "s">>, category |-> "ArcadeGame"],
       [string |-> <<"b", "o", "a", "r", "d", "g", "a", "m", "e">>, category |-> "BoardGame"],
       [string |-> <<"b", "o", "a", "r", "d", "g", "a", "m", "e", "s">>, category |-> "BoardGame"],
       [string |-> <<"b", "u", "s", "i", "n", "e", "s", "s">>, category |-> "Business"],
       [string |-> <<"c", "a", "r", "d", "g", "a", "m", "e">>, category |-> "CardGame"],
       [string |-> <<"c", "a", "r", "d", "g", "a", "m", "e", "s">>, category |-> "CardGame"],
       [string |-> <<"c", "a", "s", "i", "n", "o", "g", "a", "m", "e">>, category |-> "CasinoGame"],
       [string |-> <<"c", "a", "s", "i", "n", "o", "g", "a", "m", "e", "s">>, category |-> "CasinoGame"],
       [string |-> <<"d", "e", "v", "e", "l", "o", "p", "e", "r">>, category |-> "DeveloperTool"],
       [string |-> <<"d", "e", "v", "e", "l", "o", "p", "e", "r", "t", "o", "o", "l">>, category |-> "DeveloperTool"],
       [string |-> <<"d", "e", "v", "e", "l", "o", "p", "e", "r", "t", "o", "o", "l", "s">>, category |-> "DeveloperTool"],
       [string |-> <<"d", "e", "v", "e", "l", "o", "p", "m", "e", "n", "t">>, category |-> "DeveloperTool"],
       [string |-> <<"d", "i", "c", "e", "g", "a", "m", "e">>, category |-> "DiceGame"],
       [string |-> <<"d", "i", "c", "e", "g", "a", "m", "e", "s">>, category |-> "DiceGame"],
       [string |-> <<"e", "d", "u", "c", "a", "t", "i", "o", "n">>, category |-> "Education"],
       [string |-> <<"e", "d", "u", "c", "a", "t", "i", "o", "n", "a", "l", "g", "a", "m", "e">>, category |-> "EducationalGame"],
       [string |-> <<"e", "d", "u", "c", "a", "t", "i", "o", "n", "a", "l", "g", "a", "m", "e", "s">>, category |-> "EducationalGame"],
       [string |-> <<"e", "n", "t", "e", "r", "t", "a", "i", "n", "m", "e", "n", "t">>, category |-> "Entertainment"],
       [string |-> <<"f", "a", "m", "i", "l", "y", "g", "a", "m", "e">>, category |-> "FamilyGame"],
       [string |-> <<"f", "a", "m", "i", "l", "y", "g", "a", "m", "e", "s">>, category |-> "FamilyGame"],
       [string |-> <<"f", "i", "n", "a", "n", "c", "e">>, category |-> "Finance"],
       [string |-> <<"f", "i", "t", "n", "e", "s", "s">>, category |-> "HealthcareAndFitness"],
       [string |-> <<"g", "a", "m", "e">>, category |-> "Game"],
       [string |-> <<"g", "a", "m", "e", "s">>, category |-> "Game"],
       [string |-> <<"g", "r", "a", "p", "h", "i", "c", "d", "e", "s", "i", "g", "n">>, category |-> "GraphicsAndDesign"],
       [string |-> <<"g", "r", "a", "p", "h", "i", "c", "s", "a", "n", "d", "d", "e", "s", "i", "g", "n">>, category |-> "GraphicsAndDesign"],
       [string |-> <<"g", "r", "a", "p", "h", "i", "c", "s", "d", "e", "s", "i", "g", "n">>, category |-> "GraphicsAndDesign"],
       [string |-> <<"h", "e", "a", "l", "t", "h", "c", "a", "r", "e", "a", "n", "d", "f", "i", "t", "n", "e", "s", "s">>, category |-> "HealthcareAndFitness"],
       [string |-> <<"h", "e", "a", "l", "t", "h", "c", "a", "r", "e", "f", "i", "t", "n", "e", "s", "s">>, category |-> "HealthcareAndFitness"],
       [string |-> <<"k", "i", "d", "s", "g", "a", "m", "e">>, category |-> "KidsGame"],
       [string |-> <<"k", "i", "d", "s", "g", "a", "m", "e", "s">>, category |-> "KidsGame"],
       [string |-> <<"l", "i", "f", "e", "s", "t", "y", "l", "e">>, category |-> "Lifestyle"],
       [string |-> <<"l", "o", "g", "i", "c", "g", "a", "m", "e">>, category |-> "PuzzleGame"],
       [string |-> <<"m", "e", "d", "i", "c", "a", "l">>, category |-> "Medical"],
       [string |-> <<"m", "e", "d", "i", "c", "a", "l", "s", "o", "f", "t", "w", "a", "r", "e">>, category |-> "Medical"],
       [string |-> <<"m", "u", "s", "i", "c">>, category |-> "Music"],
       [string |-> <<"m", "u", "s", "i", "c", "g", "a", "m", "e">>, category |-> "MusicGame"],
       [string |-> <<"m", "u", "s", "i", "c", "g", "a", "m", "e", "s">>, category |-> "MusicGame"],
       [string |-> <<"n", "e", "w", "s">>, category |-> "News"],
       [string |-> <<"p", "h", "o", "t", "o", "g", "r", "a", "p", "h", "y">>, category |-> "Photography"],
       [string |-> <<"p", "r", "o", "d", "u", "c", "t", "i", "v", "i", "t", "y">>, category |-> "Productivity"],
       [string |-> <<"p", "u", "z", "z", "l", "e", "g", "a", "m", "e">>, category |-> "PuzzleGame"],
       [string |-> <<"p", "u", "z", "z", "l", "e", "g", "a", "m", "e", "s">>, category |-> "PuzzleGame"],
       [string |-> <<"r", "a", "c", "i", "n", "g", "g", "a", "m", "e">>, category |-> "RacingGame"],
       [string |-> <<"r", "a", "c", "i", "n", "g", "g", "a", "m", "e", "s">>, category |-> "RacingGame"],
       [string |-> <<"r", "e", "f", "e", "r", "e", "n", "c", "e">>, category |-> "Reference"],
       [string |-> <<"r", "o", "l", "e", "p", "l", "a", "y", "i", "n", "g">>, category |-> "RolePlayingGame"],
       [string |-> <<"r", "o", "l", "e", "p", "l", "a", "y", "i", "n", "g", "g", "a", "m", "e">>, category |-> "RolePlayingGame"],
       [string |-> <<"r", "o", "l", "e", "p", "l", "a", "y", "i", "n", "g", "g", "a", "m", "e", "s">>, category |-> "RolePlayingGame"],
       [string |-> <<"r", "p", "g">>, category |-> "RolePlayingGame"],
       [string |-> <<"s", "i", "m", "u", "l", "a", "t", "i", "o", "n", "g", "a", "m", "e">>, category |-> "SimulationGame"],
       [string |-> <<"s", "i", "m", "u", "l", "a", "t", "i", "o", "n", "g", "a", "m", "e", "s">>, category |-> "SimulationGame"],
       [string |-> <<"s", "o", "c", "i", "a", "l", "n", "e", "t", "w", "o", "r", "k">>, category |-> "SocialNetworking"],
       [string |-> <<"s", "o", "c", "i", "a", "l", "n", "e", "t", "w", "o", "r", "k", "i", "n", "g">>, category |-> "SocialNetworking"],
       [string |-> <<"s", "p", "o", "r", "t", "s">>, category |-> "Sports"],
       [string |-> <<"s", "p", "o", "r", "t", "s", "g", "a", "m", "e">>, category |-> "SportsGame"],
       [string |-> <<"s", "p", "o", "r", "t", "s", "g", "a", "m", "e", "s">>, category |-> "SportsGame"],
       [string |-> <<"s", "t", "r", "a", "t", "e", "g", "y", "g", "a", "m", "e">>, category |-> "StrategyGame"],
       [string |-> <<"s", "t", "r", "a", "t", "e", "g", "y", "g", "a", "m", "e", "s">>, category |-> "StrategyGame"],
       [string |-> <<"t", "r", "a", "v", "e", "l">>, category |-> "Travel"],
       [string |-> <<"t", "r", "i", "v", "i", "a", "g", "a", "m", "e">>, category |-> "TriviaGame"],
       [string |-> <<"t", "r", "i", "v", "i", "a", "g", "a", "m", "e", "s">>, category |-> "TriviaGame"],
       [string |-> <<"u", "t", "i", "l", "i", "t", "i", "e", "s">>, category |-> "Utility"],
       [string |-> <<"u", "t", "i", "l", "i", "t", "y">>, category |-> "Utility"],
       [string |-> <<"v", "i", "d", "e", "o">>, category |-> "Video"],
       [string |-> <<"w", "e", "a", "t", "h", "e", "r">>, category |-> "Weather"],
       [string |-> <<"w", "o", "r", "d", "g", "a", "m", "e">>, category |-> "WordGame"],
       [string |-> <<"w", "o", "r", "d", "g", "a", "m", "e", "s">>, category |-> "WordGame"] >>

\* A faulty variant of SplitOff: the split is one character early.
SplitOffShort(input, prefix) == SubSeq(input, Len(prefix), Len(input))

\* input.split_at(OSX_APP_CATEGORY_PREFIX.len()).1
SplitOff(input, prefix) == SubSeq(input, Len(prefix) + 1, Len(input))

\* A faulty variant of RemoveHyphens: only the first hyphen is removed.
RemoveFirstHyphen(s) == RemoveFirstChar(s, "-")

\* input.replace('-', "")
RemoveHyphens(s) == RemoveChar(s, "-")

\* The canonicalisation at the head of Category::from_str.
canonicalize(input) ==
    LET lower == to_ascii_lowercase(input)
        stripped == IF starts_with(lower, OSX_APP_CATEGORY_PREFIX)
                    THEN SplitOff(lower, OSX_APP_CATEGORY_PREFIX)
                    ELSE lower
    IN  RemoveHyphens(RemoveChar(stripped, " "))

Ok(category) == [ok |-> TRUE, category |-> <<category>>, did_you_mean |-> <<>>]
Err(suggestion) == [ok |-> FALSE, category |-> <<>>, did_you_mean |-> suggestion]

\* A faulty variant of IsMatch: a near match counts as a match.
IsMatchNear(input, string) == RatLeq(CONFIDENCE_THRESHOLD, jaro_winkler(input, string))

\* `input == string`
IsMatch(input, string) == input = string

\* A faulty variant of IsBetter: the threshold is not applied.
IsBetterNoThreshold(confidence, best_confidence) == RatLess(best_confidence, confidence)

\* `confidence >= CONFIDENCE_THRESHOLD && confidence > best_confidence`
IsBetter(confidence, best_confidence) ==
    /\ RatLeq(CONFIDENCE_THRESHOLD, confidence)
    /\ RatLess(best_confidence, confidence)

\* One iteration of the loop over CATEGORY_STRINGS, for entry i. st holds
\* the value returned from inside the loop (an Option, as a sequence of
\* length 0 or 1), best_confidence and best_category (an Option).
LoopBody(input, st, i) ==
    IF st.returned # <<>> THEN st
    ELSE LET string == CATEGORY_STRINGS[i].string
             category == CATEGORY_STRINGS[i].category
         IN  IF IsMatch(input, string) THEN [st EXCEPT !.returned = <<category>>]
             ELSE LET confidence == jaro_winkler(input, string)
                  IN  IF IsBetter(confidence, st.best_confidence)
                      THEN [st EXCEPT !.best_confidence = confidence,
                                      !.best_category = <<category>>]
                      ELSE st

\* The iterations lo..hi of that loop, in order. The range is halved, and
\* the second half is skipped once the first half has returned, so that the
\* evaluation stays shallow.
RECURSIVE LoopOver(_, _, _, _)
LoopOver(input, st, lo, hi) ==
    IF lo > hi THEN st
    ELSE IF lo = hi THEN LoopBody(input, st, lo)
    ELSE LET first == LoopOver(input, st, lo, (lo + hi) \div 2)
         IN  IF first.returned # <<>> THEN first
             ELSE LoopOver(input, first, ((lo + hi) \div 2) + 1, hi)

\* Category::from_str
from_str(input) ==
    LET st == LoopOver(canonicalize(input),
                       [returned |-> <<>>, best_confidence |-> Rat(0, 1),
                        best_category |-> <<>>],
                       1, Len(CATEGORY_STRINGS))
    IN  IF st.returned # <<>> THEN Ok(st.returned[1])
        ELSE Err([k \in 1..Len(st.best_category) |-> canonical(st.best_category[k])])

(***************************************************************************)
(* generate_control_file (src/bundle/linux/deb_bundle.rs)                  *)
(***************************************************************************)
\* char::is_whitespace, on the characters the descriptions are drawn from.
IsWhitespace(c) == c \in {" ", "\n", "\r", "\t"}

\* str::trim
trim(s) ==
    LET keep == {i \in 1..Len(s) : ~IsWhitespace(s[i])}
    IN  IF keep = {} THEN <<>>
        ELSE SubSeq(s, CHOOSE i \in keep : \A j \in keep : i <= j,
                       CHOOSE i \in keep : \A j \in keep : i >= j)

\* str::lines: the text is cut at each "\n", a final empty piece is not a
\* line, and one "\r" at the end of a line goes with the cut. (Whether the
\* last line loses a "\r" that no "\n" follows depends on the version of
\* the standard library; generate_control_file trims the text first and
\* each line afterwards, so neither outcome can be told apart there.)
lines(s) ==
    LET cuts == {i \in 1..Len(s) : s[i] = "\n"}
        ends == cuts \cup (IF s # <<>> /\ s[Len(s)] # "\n" THEN {Len(s) + 1} ELSE {})
        EndOf(k) == CHOOSE e \in ends : Cardinality({x \in ends : x < e}) = k - 1
        StartOf(k) == IF k = 1 THEN 1 ELSE EndOf(k - 1) + 1
        Piece(k) == SubSeq(s, StartOf(k), EndOf(k) - 1)
        StripCr(t) == IF t # <<>> /\ t[Len(t)] = "\r" THEN SubSeq(t, 1, Len(t) - 1) ELSE t
    IN  [k \in 1..Cardinality(ends) |-> StripCr(Piece(k))]

\* A faulty variant of DebArch: every token is kept as it is.
DebArchKept(binary_arch) == binary_arch

\* The architecture names of bundle_project.
DebArch(binary_arch) ==
    CASE binary_arch = "x86"     -> "i386"
      [] binary_arch = "x86_64"  -> "amd64"
      [] binary_arch = "arm"     -> "armhf"
      [] binary_arch = "aarch64" -> "arm64"
      [] OTHER                   -> binary_arch

\* str::replace(bundle_name, " ", "-").to_ascii_lowercase()
PackageName(bundle_name) ==
    to_ascii_lowercase([i \in 1..Len(bundle_name) |->
                            IF bundle_name[i] = " " THEN "-" ELSE bundle_name[i]])

\* A faulty variant of InstalledSize: the division rounds down.
InstalledSizeFloor(total) == total \div 1024

\* (total_dir_size(data_dir)? + 1023) / 1024, on u64; the sum stays far
\* below 2^64 for every total the model draws.
InstalledSize(total) == (total + 1023) \div 1024

Placeholder == <<"(", "n", "o", "n", "e", ")">>

\* A faulty variant of LineText: the line is written untrimmed.
LineTextUntrimmed(line) == line

\* `let line = line.trim();`
LineText(line) == trim(line)

\* A line written to the control file: its field name (empty for a
\* continuation line) and its value, which is a word, a number or text.
Line(key, word, num, text) == [key |-> key, word |-> word, num |-> num, text |-> text]

\* The loop over long_description.lines()
DescriptionLines(long_description) ==
    LET ls == lines(long_description)
    IN  [k \in 1..Len(ls) |->
            IF LineText(ls[k]) = <<>> THEN Line("", "", 0, <<" ", ".">>)
            ELSE Line("", "", 0, <<" ">> \o LineText(ls[k]))]

\* The lines generate_control_file writes, in order. Options are sequences
\* of length 0 or 1.
ControlFile(s, arch, total) ==
    LET authors == IF s.authors = <<>> THEN "" ELSE s.authors[1]
        short0 == trim(s.short_description)
        short_description == IF short0 = <<>> THEN Placeholder ELSE short0
        long0 == trim(IF s.long_description = <<>> THEN <<>>
                      ELSE s.long_description[1])
        long_description == IF long0 = <<>> THEN Placeholder ELSE long0
    IN  << Line("Package", "", 0, PackageName(s.bundle_name)),
           Line("Version", s.version_string, 0, <<>>),
           Line("Architecture", arch, 0, <<>>),
           Line("Installed-Size", "", InstalledSize(total), <<>>),
           Line("Maintainer", authors, 0, <<>>) >>
        \o (IF s.homepage_url # ""
            THEN <<Line("Homepage", s.homepage_url, 0, <<>>)>> ELSE <<>>)
        \o (IF s.debian_dependencies # ""
            THEN <<Line("Depends", s.debian_dependencies, 0, <<>>)>> ELSE <<>>)
        \o <<Line("Description", "", 0, short_description)>>
        \o DescriptionLines(long_description)

(***************************************************************************)
(* bundle_project (src/bundle/linux/deb_bundle.rs): the staging directory  *)
(* package_dir as a map from file paths, relative to it, to file contents, *)
(* and the file at package_path.                                           *)
(***************************************************************************)
EmptyTree == <<>>

\* What a file holds: its kind, its text (the marker), the source it was
\* copied from (copies), the payload files it describes (control file and
\* manifest), and the entries it packs (tree archives).
File(kind, text, from, lists, packs) ==
    [kind |-> kind, text |-> text, from |-> from, lists |-> lists, packs |-> packs]

WriteFile(tree, path, file) ==
    [q \in DOMAIN tree \cup {path} |-> IF q = path THEN file ELSE tree[q]]

\* The files below a directory.
Under(tree, dir) ==
    {q \in DOMAIN tree : Len(q.segs) > Len(dir.segs) /\ IsPrefixOf(dir.segs, q.segs)}

BinaryPath == [prefix |-> "", root |-> TRUE, segs |-> <<"target", "release", BinaryName>>]
BinaryDest == Join(Join(DataDir, Rel(<<"usr", "bin">>)), Rel(<<BinaryName>>))
ControlDir == Rel(<<"control">>)
\* A faulty variant of DebianBinaryPath: the marker is written into the
\* payload subtree.
DebianBinaryPathInData == Join(DataDir, Rel(<<"debian-binary">>))

\* package_dir.join("debian-binary")
DebianBinaryPath == Rel(<<"debian-binary">>)

\* tar_and_gzip_dir (src/bundle/linux/mod.rs is not part of the sources; the
\* specification gives its contract): the archive is written next to the
\* directory, under the directory's name with a fixed suffix, it packs every
\* file below the directory, and the directory is consumed.
TarGzPath(dir) ==
    Rel(<<CASE dir = ControlDir -> "control.tar.gz"
            [] dir = DataDir    -> "data.tar.gz">>)

tar_and_gzip_dir(tree, dir) ==
    LET packed == {[path |-> q, file |-> tree[q]] : q \in Under(tree, dir)}
        kept == DOMAIN tree \ Under(tree, dir)
    IN  [q \in kept \cup {TarGzPath(dir)} |->
            IF q = TarGzPath(dir) THEN File("tar.gz", "", NoPath, {}, packed)
            ELSE tree[q]]

\* create_file_with_data (in the same missing module): the file is created
\* with exactly the data given.
create_file_with_data(tree, path, data) ==
    WriteFile(tree, path, File("text", data, NoPath, {}, {}))

\* generate_icon_files and generate_desktop_file (external collaborators)
\* write into the payload subtree.
IconPath == Join(DataDir, Rel(<<"usr", "share", "icons", "hicolor", BinaryName>>))
DesktopPath == Join(DataDir, Rel(<<"usr", "share", "applications", BinaryName>>))

\* A faulty variant of ArchiveSrcs: the payload archive comes second.
ArchiveSrcsDataSecond == <<DebianBinaryPath, TarGzPath(DataDir), TarGzPath(ControlDir)>>

\* vec![debian_binary_path, control_tar_gz_path, data_tar_gz_path]
ArchiveSrcs == <<DebianBinaryPath, TarGzPath(ControlDir), TarGzPath(DataDir)>>

\* ar::Builder::append_path: the member is named by the file's base name.
Member(tree, path) == [name |-> path.segs[Len(path.segs)], data |-> tree[path]]

\* The file at package_path: absent, or the members written so far by the
\* run that created it.
NoArtifact == <<>>
Container(run, members) == <<[run |-> run, members |-> members]>>

Running == [state |-> "running", paths |-> <<>>, error |-> ""]
Failed(error) == [state |-> "err", paths |-> <<>>, error |-> error]
\* Ok(vec![package_path])
Succeeded(package_path) == [state |-> "ok", paths |-> <<package_path>>, error |-> ""]

\* A faulty variant of remove_dir_all: the directory is left as it is.
remove_dir_all_Kept(tree) == tree

\* std::fs::remove_dir_all(&package_dir)
remove_dir_all(tree) == EmptyTree

\* format!("{}_{}_{}", binary_name, version_string, arch) and
\* format!("{package_base_name}.deb"): the parts of the file name of the
\* artifact, in base_dir.
PackageBaseName(s, arch) == <<BinaryName, s.version_string, arch>>
PackagePath(s, arch) == [dir |-> "bundle/deb", name |-> PackageBaseName(s, arch), ext |-> "deb"]

\* The size in bytes of a staged file. Sizes are those of the sources: the
\* binary, a resource, an icon, the desktop entry.
FileSize(file) ==
    CASE file.kind = "copy" /\ file.from = BinaryPath -> 1000
      [] file.kind = "copy"    -> 600
      [] file.kind = "icon"    -> 24
      [] file.kind = "desktop" -> 1
      [] OTHER                 -> 0

\* total_dir_size (in the missing module): the sizes of the files below the
\* directory, added up.
RECURSIVE SumSizes(_, _)
SumSizes(tree, paths) ==
    IF paths = {} THEN 0
    ELSE LET q == CHOOSE x \in paths : TRUE
         IN  FileSize(tree[q]) + SumSizes(tree, paths \ {q})

total_dir_size(tree, dir) == SumSizes(tree, Under(tree, dir))

(***************************************************************************)
(* The file system under src/file.rs: a map from paths (the names from the *)
(* root of a scratch directory) to directories, regular files and symbolic *)
(* links, and the std::fs calls made by copy, copy_dir and create.         *)
(***************************************************************************)
Directory == [kind |-> "dir", bytes |-> "", target |-> <<>>]
RegularFile(bytes) == [kind |-> "file", bytes |-> bytes, target |-> <<>>]
SymbolicLink(target) == [kind |-> "symlink", bytes |-> "", target |-> target]

\* Path::parent, and the directories above a path.
Parent(path) == SubSeq(path, 1, Len(path) - 1)
Ancestors(path) == {SubSeq(path, 1, k) : k \in 0..(Len(path) - 1)}

Put(fs, path, node) == [q \in DOMAIN fs \cup {path} |-> IF q = path THEN node ELSE fs[q]]

\* The outcome of a call: whether it succeeded, and the file system it left.
Done(fs) == [ok |-> TRUE, fs |-> fs]
Fail(fs) == [ok |-> FALSE, fs |-> fs]

\* What a path leads to when symbolic links are followed (a link's target is
\* relative to the directory that holds the link).
RECURSIVE Follow(_, _, _)
Follow(fs, path, hops) ==
    IF path \in DOMAIN fs /\ fs[path].kind = "symlink" /\ hops > 0
    THEN Follow(fs, Parent(path) \o fs[path].target, hops - 1)
    ELSE path

\* Path::is_dir
is_dir(fs, path) ==
    LET q == Follow(fs, path, 2) IN q \in DOMAIN fs /\ fs[q].kind = "dir"

\* A faulty variant of create_dir_all: nothing is created.
create_dir_all_Nothing(fs, path) == Done(fs)

\* std::fs::create_dir_all: every missing directory down to the path is
\* created; a path or ancestor that is there and is no directory fails it.
create_dir_all(fs, path) ==
    LET chain == Ancestors(path) \cup {path}
    IN  IF \E a \in chain : a \in DOMAIN fs /\ fs[a].kind # "dir" THEN Fail(fs)
        ELSE Done([q \in DOMAIN fs \cup chain |-> IF q \in DOMAIN fs THEN fs[q] ELSE Directory])

\* A faulty variant of create_dir: a directory that is there is accepted.
create_dir_Lenient(fs, path) ==
    IF Parent(path) \notin DOMAIN fs \/ fs[Parent(path)].kind # "dir" THEN Fail(fs)
    ELSE IF path \in DOMAIN fs /\ fs[path].kind # "dir" THEN Fail(fs)
    ELSE Done(Put(fs, path, Directory))

\* std::fs::create_dir: fails when the path exists or its parent is no
\* directory.
create_dir(fs, path) ==
    IF path \in DOMAIN fs THEN Fail(fs)
    ELSE IF Parent(path) \notin DOMAIN fs \/ fs[Parent(path)].kind # "dir" THEN Fail(fs)
    ELSE Done(Put(fs, path, Directory))

\* symlink / symlink_dir: a link with the given target string is created.
symlink(fs, target, path) ==
    IF path \in DOMAIN fs THEN Fail(fs)
    ELSE IF Parent(path) \notin DOMAIN fs \/ fs[Parent(path)].kind # "dir" THEN Fail(fs)
    ELSE Done(Put(fs, path, SymbolicLink(target)))

\* std::fs::copy: the source, links followed, must be a regular file; the
\* destination is created or replaced. A destination spelled with a trailing
\* separator (to.join("") for the root of a walk) names a directory and
\* cannot be created as a file.
fs_copy(fs, from, to, trailing) ==
    LET src == Follow(fs, from, 2)
    IN  IF src \notin DOMAIN fs \/ fs[src].kind # "file" THEN Fail(fs)
        ELSE IF trailing THEN Fail(fs)
        ELSE IF Parent(to) \notin DOMAIN fs \/ fs[Parent(to)].kind # "dir" THEN Fail(fs)
        ELSE IF to \in DOMAIN fs /\ fs[to].kind # "file" THEN Fail(fs)
        ELSE Done(Put(fs, to, RegularFile(fs[src].bytes)))

\* file::copy
copy(fs, from, to) ==
    LET made == create_dir_all(fs, Parent(to))
    IN  IF ~made.ok THEN made ELSE fs_copy(made.fs, from, to, FALSE)

\* file::create: the parent directories, then File::create, which makes an
\* empty file or empties the one that is there.
create(fs, path) ==
    LET made == create_dir_all(fs, Parent(path))
    IN  IF ~made.ok THEN made
        ELSE IF path \in DOMAIN made.fs /\ made.fs[path].kind # "file" THEN Fail(made.fs)
        ELSE Done(Put(made.fs, path, RegularFile("")))

\* A faulty variant of IsSymlinkEntry: no entry is taken for a link.
IsSymlinkEntryNever(node) == FALSE

\* entry.file_type().is_symlink()
IsSymlinkEntry(node) == node.kind = "symlink"

\* The body of the loop of copy_dir for one entry of the walk.
CopyEntry(fs, from, to, entry) ==
    LET rel_path == SubSeq(entry, Len(from) + 1, Len(entry))
        dest_path == to \o rel_path
    IN  IF IsSymlinkEntry(fs[entry]) THEN symlink(fs, fs[entry].target, dest_path)
        ELSE IF fs[entry].kind = "dir" THEN create_dir(fs, dest_path)
        ELSE fs_copy(fs, entry, dest_path, rel_path = <<>>)

\* WalkDir::new(from): the root, then everything below it; links are not
\* followed, and a directory comes before what it holds.
WalkEntries(fs, from) ==
    {q \in DOMAIN fs : Len(q) >= Len(from) /\ SubSeq(q, 1, Len(from)) = from}

RECURSIVE CopyEntries(_, _, _, _)
CopyEntries(fs, from, to, todo) ==
    IF todo = {} THEN Done(fs)
    ELSE LET entry == CHOOSE q \in todo : \A r \in todo : Len(q) <= Len(r)
             step == CopyEntry(fs, from, to, entry)
         IN  IF ~step.ok THEN step
             ELSE CopyEntries(step.fs, from, to, todo \ {entry})

\* file::copy_dir
copy_dir(fs, from, to) ==
    LET made == create_dir_all(fs, Parent(to))
    IN  IF ~made.ok THEN made
        ELSE IF from \notin DOMAIN made.fs THEN Fail(made.fs)
        ELSE CopyEntries(made.fs, from, to, WalkEntries(made.fs, from))

(***************************************************************************)
(* generate_md5sums (src/bundle/linux/deb_bundle.rs): the payload as a map *)
(* from paths below data_dir to directories and regular files, walked in   *)
(* the order the file system enumerates directory entries.                 *)
(***************************************************************************)
HexDigits == <<"0", "1", "2", "3", "4", "5", "6", "7", "8", "9", "a", "b", "c", "d", "e", "f">>

\* A faulty variant of HexByte: no leading zero.
HexByteUnpadded(byte) ==
    IF byte < 16 THEN <<HexDigits[byte + 1]>>
    ELSE <<HexDigits[(byte \div 16) + 1], HexDigits[(byte % 16) + 1]>>

\* write!(md5sums_file, "{byte:02x}")
HexByte(byte) == <<HexDigits[(byte \div 16) + 1], HexDigits[(byte % 16) + 1]>>

\* generate_md5sum (in the missing module): a digest of 16 bytes that
\* depends on the contents only. The bytes here stand for a digest: they
\* differ between the contents of the model and include values below 16.
DigestLen == 16
ContentSeed(bytes) ==
    CASE bytes = "ELF" -> 3
      [] bytes = "A"   -> 11
      [] OTHER         -> 29
generate_md5sum(bytes) == [i \in 1..DigestLen |-> (ContentSeed(bytes) * i * i + i) % 256]

\* A name that is not valid UTF-8, and Path::to_str.
NonUtf8Name == "caf\\xe9"
to_str_ok(path) == \A i \in 1..Len(path) : path[i] # NonUtf8Name

\* The text of a relative path: its names with separators between.
RECURSIVE PathText(_)
PathText(path) ==
    IF path = <<>> THEN <<>>
    ELSE IF Len(path) = 1 THEN <<path[1]>>
    ELSE <<path[1], "/">> \o PathText(Tail(path))

\* for byte in generate_md5sum(path)?.iter() { write!(.., "{byte:02x}") }
DigestHex(tree, path) ==
    Concat([i \in 1..DigestLen |-> HexByte(generate_md5sum(tree[path].bytes)[i])])

\* One line of the manifest: the digest in hex, two spaces, the path.
ManifestLine(tree, path) == DigestHex(tree, path) \o <<" ", " ">> \o PathText(path)

\* WalkDir::new(data_dir) below a directory: the entries of the directory in
\* the order the file system gives them (here: the order of their names in
\* `order`), each directory followed at once by what it holds.
RECURSIVE WalkBelow(_, _, _, _)
WalkBelow(tree, dir, order, i) ==
    IF i > Len(order) THEN <<>>
    ELSE LET entry == Append(dir, order[i])
             first == IF entry \notin DOMAIN tree THEN <<>>
                      ELSE IF tree[entry].kind = "dir"
                           THEN <<entry>> \o WalkBelow(tree, entry, order, 1)
                           ELSE <<entry>>
         IN  first \o WalkBelow(tree, dir, order, i + 1)

\* The loop of generate_md5sums over the entries still to come: directories
\* are skipped, a path that is no text ends the run with an error, every
\* other entry adds a line.
RECURSIVE WriteLines(_, _, _)
WriteLines(tree, entries, written) ==
    IF entries = <<>> THEN [ok |-> TRUE, lines |-> written]
    ELSE LET path == Head(entries)
         IN  IF tree[path].kind = "dir" THEN WriteLines(tree, Tail(entries), written)
             ELSE IF ~to_str_ok(path)
                  THEN [ok |-> FALSE, lines |-> Append(written, DigestHex(tree, path))]
             ELSE WriteLines(tree, Tail(entries), Append(written, ManifestLine(tree, path)))

generate_md5sums(tree, order) == WriteLines(tree, WalkBelow(tree, <<>>, order, 1), <<>>)

(***************************************************************************)
(* Each specification runs one part of the program; the variables of the   *)
(* other parts rest at these values.                                       *)
(***************************************************************************)
PathIdle == p_pc = "idle" /\ p_src = NoPath /\ p_out = NoPath /\ p_dest = NoPath
CatIdle == c_pc = "idle" /\ c_input = <<>> /\ c_result = Err(<<>>)
CtlIdle == k_pc = "idle" /\ k_settings = <<>> /\ k_total = 0 /\ k_file = <<>>
BundleIdle ==
    /\ pc = "idle" /\ settings = <<>> /\ resources = <<>> /\ ri = 0 /\ existed = FALSE
    /\ staging = EmptyTree /\ artifact = NoArtifact /\ result = Running
FileIdle ==
    /\ f_pc = "idle" /\ f_fs = <<>> /\ f_before = <<>> /\ f_op = <<>> /\ f_result = ""
ManIdle == m_pc = "idle" /\ m_tree = {} /\ m_runs = <<>>
NoEdit == [kind |-> "none", at |-> 0, char |-> ""]
EditIdle ==
    /\ e_pc = "idle"
    /\ e_input = <<>>
    /\ e_result = Err(<<>>)
    /\ e_edit = NoEdit
    /\ e_edited = <<>>
    /\ e_edited_result = Err(<<>>)

(***************************************************************************)
(* Path specification: one resource path goes through resource_relpath and *)
(* is given its destination as in transfer_resource_files.                 *)
(***************************************************************************)
PathInit ==
    /\ p_pc = "input"
    /\ p_src \in PathInputs
    /\ p_out = NoPath
    /\ p_dest = NoPath
    /\ CatIdle
    /\ CtlIdle
    /\ BundleIdle
    /\ FileIdle
    /\ ManIdle
    /\ EditIdle

StageResource ==
    /\ p_pc = "input"
    /\ p_out' = resource_relpath(p_src)
    /\ p_dest' = Join(ResourceDir, resource_relpath(p_src))
    /\ p_pc' = "staged"
    /\ UNCHANGED <<p_src, catVars, ctlVars, bundleVars, fileVars, manVars, editVars>>

PathNext == StageResource

SpecPath == PathInit /\ [][PathNext]_vars

\* The destination is the resource root followed by segments that are all
\* ordinary names.
LiesUnder(dest, rootdir) ==
    /\ dest.prefix = rootdir.prefix
    /\ dest.root = rootdir.root
    /\ IsPrefixOf(rootdir.segs, dest.segs)
    /\ \A i \in 1..Len(dest.segs) : dest.segs[i] \notin {"..", ".", ""}

\* C1: for every input path, resource_relpath gives a relative path with no
\* `..` segment and no root, and the destination transfer_resource_files
\* derives from it lies under the resource root data/usr/lib/<binary_name>.
C1_NoEscape ==
    p_pc = "staged" =>
        /\ ~IsAbsoluteOrPrefixed(p_out)
        /\ \A i \in 1..Len(p_out.segs) : p_out.segs[i] # ".."
        /\ \A i \in 1..Len(Components(p_out)) :
               Components(p_out)[i].kind \notin {"ParentDir", "RootDir", "Prefix"}
        /\ LiesUnder(p_dest, ResourceDir)

\* A rooted input with parent references has been staged.
C1_Witness ==
    /\ p_pc = "staged"
    /\ p_src.root
    /\ \E i \in 1..Len(p_src.segs) : p_src.segs[i] = ".."
    /\ \E i \in 1..Len(p_src.segs) : p_src.segs[i] \in {"a", "b", "x"}

\* The policy stated on the raw text of the path: what each raw segment
\* becomes.
RECURSIVE PolicySegs(_)
PolicySegs(segs) ==
    IF segs = <<>> THEN <<>>
    ELSE LET s == Head(segs)
         IN  (CASE s \in {"", "."} -> <<>>
                [] s = ".."        -> <<"_up_">>
                [] OTHER           -> <<s>>)
             \o PolicySegs(Tail(segs))

\* C2: a leading root becomes `_root_`, each parent reference `_up_`,
\* current-directory segments are dropped, every other segment passes
\* through in order; "./a/b" -> "a/b", "../../x" -> "_up_/_up_/x",
\* "/a/b" -> "_root_/a/b".
C2_Policy ==
    p_pc = "staged" =>
        /\ p_out = Rel((IF p_src.root THEN <<"_root_">> ELSE <<>>)
                       \o PolicySegs(p_src.segs))
        /\ (p_src = Rel(<<".", "a", "b">>) => p_out = Rel(<<"a", "b">>))
        /\ (p_src = Rel(<<"..", "..", "x">>) => p_out = Rel(<<"_up_", "_up_", "x">>))
        /\ (p_src = [prefix |-> "", root |-> TRUE, segs |-> <<"a", "b">>]
                => p_out = Rel(<<"_root_", "a", "b">>))

\* "../../x" has been normalised.
C2_Witness ==
    /\ p_pc = "staged"
    /\ p_src = Rel(<<"..", "..", "x">>)
    /\ p_out = Rel(<<"_up_", "_up_", "x">>)


(***************************************************************************)
(* Category specification: one input string goes through                   *)
(* Category::from_str.                                                     *)
(***************************************************************************)
\* Most pieces a composed input is made of.
MaxTokens == 2

\* Typos delete one of the first MaxTypoPos characters of a table key.
MaxTypoPos == 2

\* The inputs of the tests of src/category.rs that are no table key.
TestStrings ==
    { <<"g", "a", "m", "i", "n", "g">>,
      <<"p", "h", "o", "t", "o", "s">>,
      <<"s", "t", "r", "a", "t", "e", "g", "e", "r", "y">>,
      <<"f", "h", "q", "w", "h", "g", "a", "d", "s">>,
      <<"W", "H", "A", "R", "R", "G", "A", "R", "B", "L">>,
      <<" ", "p", "u", "z", "z", "l", "e", " ", " ", "g", "a", "m", "e", " ">>,
      <<"R", "o", "l", "e", "-", "p", "l", "a", "y", "i", "n", "g", " ", "g", "a", "m", "e">> }

\* Pieces of composed inputs: the taxonomy prefix in both cases, the
\* characters canonicalisation removes, and words.
Tokens ==
    { OSX_APP_CATEGORY_PREFIX,
      <<"P", "U", "B", "L", "I", "C", ".", "A", "P", "P", "-", "C", "A", "T", "E", "G", "O", "R", "Y", ".">>,
      <<" ">>,
      <<"-">>,
      <<"g", "a", "m", "e", "s">>,
      <<"W", "o", "r", "d">>,
      <<"x">> }

TableKeys == {CATEGORY_STRINGS[i].string : i \in DOMAIN CATEGORY_STRINGS}

DeleteAt(s, k) == SubSeq(s, 1, k - 1) \o SubSeq(s, k + 1, Len(s))

CategoryInputs ==
    TableKeys
    \cup {osx_application_category_type(c) : c \in Category}
    \cup {canonical(c) : c \in Category}
    \cup TestStrings
    \cup {Concat(ts) : ts \in SeqsUpTo(Tokens, MaxTokens)}
    \cup {DeleteAt(s, k) : s \in TableKeys, k \in 1..MaxTypoPos}

CatInit ==
    /\ c_pc = "input"
    /\ c_input \in CategoryInputs
    /\ c_result = Err(<<>>)
    /\ PathIdle
    /\ CtlIdle
    /\ BundleIdle
    /\ FileIdle
    /\ ManIdle
    /\ EditIdle

Resolve ==
    /\ c_pc = "input"
    /\ c_result' = from_str(c_input)
    /\ c_pc' = "resolved"
    /\ UNCHANGED <<c_input, pathVars, ctlVars, bundleVars, fileVars, manVars, editVars>>

CatNext == Resolve

SpecCategory == CatInit /\ [][CatNext]_vars

Str_sports == <<"s", "p", "o", "r", "t", "s">>
Str_sportsgame == <<"s", "p", "o", "r", "t", "s", "g", "a", "m", "e">>
Str_gaming == <<"g", "a", "m", "i", "n", "g">>
Str_fhqwhgads == <<"f", "h", "q", "w", "h", "g", "a", "d", "s">>
Str_Game == <<"G", "a", "m", "e">>

\* C4: every alias of CATEGORY_STRINGS resolves to its own category: the
\* keys are unique, and the exact match is returned even when an earlier key
\* of another category scores at or above the threshold.
C4_AliasResolves ==
    /\ \A i, j \in DOMAIN CATEGORY_STRINGS :
           CATEGORY_STRINGS[i].string = CATEGORY_STRINGS[j].string => i = j
    /\ c_pc = "resolved" =>
           \A i \in DOMAIN CATEGORY_STRINGS :
               c_input = CATEGORY_STRINGS[i].string
                   => c_result = Ok(CATEGORY_STRINGS[i].category)

\* "sportsgame" resolved to SportsGame although the earlier key "sports", of
\* the category Sports, scores above the threshold.
C4_Witness ==
    /\ c_pc = "resolved"
    /\ c_input = Str_sportsgame
    /\ c_result = Ok("SportsGame")
    /\ \E i, j \in DOMAIN CATEGORY_STRINGS :
           /\ i < j
           /\ CATEGORY_STRINGS[j].string = c_input
           /\ CATEGORY_STRINGS[i].string = Str_sports
           /\ CATEGORY_STRINGS[i].category # CATEGORY_STRINGS[j].category
           /\ RatLeq(CONFIDENCE_THRESHOLD,
                     jaro_winkler(c_input, CATEGORY_STRINGS[i].string))

\* C5: canonicalisation is idempotent, and resolving the canonical form of
\* an input gives the result of resolving the input.
C5_Idempotent ==
    c_pc = "resolved" =>
        /\ canonicalize(canonicalize(c_input)) = canonicalize(c_input)
        /\ from_str(canonicalize(c_input)) = c_result

\* An input with the prefix and several hyphens, which canonicalisation
\* changes, has been resolved.
C5_Witness ==
    /\ c_pc = "resolved"
    /\ starts_with(to_ascii_lowercase(c_input), OSX_APP_CATEGORY_PREFIX)
    /\ Cardinality({i \in 1..Len(c_input) : c_input[i] = "-"}) >= 3
    /\ canonicalize(c_input) # c_input
    /\ c_result.ok

\* C6: for every Category c, from_str(c.osx_application_category_type())
\* is Ok(c), and the string of the category returned is the input again.
C6_RoundTrip ==
    c_pc = "resolved" =>
        \A c \in Category :
            c_input = osx_application_category_type(c)
                => /\ c_result = Ok(c)
                   /\ osx_application_category_type(c_result.category[1]) = c_input

\* The LSApplicationCategoryType of RolePlayingGame has been resolved.
C6_Witness ==
    /\ c_pc = "resolved"
    /\ c_input = osx_application_category_type("RolePlayingGame")
    /\ c_result = Ok("RolePlayingGame")

\* The scores of the canonical input against the table, and the entry the
\* claim names: the first in table order among the highest-scoring ones.
Scores(input) ==
    [i \in DOMAIN CATEGORY_STRINGS |-> jaro_winkler(input, CATEGORY_STRINGS[i].string)]

IsFirstBest(scores, i) ==
    /\ \A k \in DOMAIN scores : RatLeq(scores[k], scores[i])
    /\ \A k \in 1..(i - 1) : RatLess(scores[k], scores[i])

\* C7: when the canonical input is no table key, from_str fails with at
\* most one suggestion: the canonical name of the highest-scoring key (the
\* first in table order on a tie) if that score is at least 0.8, else none;
\* "gaming" gives the suggestion "Game", "fhqwhgads" gives none.
C7_Suggestion ==
    (c_pc = "resolved" /\ canonicalize(c_input) \notin TableKeys) =>
        LET scores == Scores(canonicalize(c_input))
        IN  /\ ~c_result.ok
            /\ Len(c_result.did_you_mean) <= 1
            /\ \A i \in DOMAIN scores :
                   IsFirstBest(scores, i) =>
                       c_result.did_you_mean =
                           IF RatLeq(CONFIDENCE_THRESHOLD, scores[i])
                           THEN <<canonical(CATEGORY_STRINGS[i].category)>>
                           ELSE <<>>
            /\ (c_input = Str_gaming => c_result = Err(<<Str_Game>>))
            /\ (c_input = Str_fhqwhgads => c_result = Err(<<>>))

\* "gaming" has been given the suggestion "Game".
C7_Witness ==
    /\ c_pc = "resolved"
    /\ c_input = Str_gaming
    /\ c_result = Err(<<Str_Game>>)

\* C21: for every Category c, from_str(c.canonical()) is Ok(c); and a
\* suggestion that from_str gives is the canonical name of a category that
\* from_str returns for it.
C21_SuggestionAccepted ==
    c_pc = "resolved" =>
        /\ \A c \in Category : c_input = canonical(c) => c_result = Ok(c)
        /\ \A k \in 1..Len(c_result.did_you_mean) :
               \E c \in Category :
                   /\ canonical(c) = c_result.did_you_mean[k]
                   /\ from_str(c_result.did_you_mean[k]) = Ok(c)

\* "Graphics and Design", a canonical name with capitals and two spaces,
\* has been resolved to its category.
C21_Witness ==
    /\ c_pc = "resolved"
    /\ c_input = canonical("GraphicsAndDesign")
    /\ Cardinality({i \in 1..Len(c_input) : c_input[i] = " "}) = 2
    /\ c_result = Ok("GraphicsAndDesign")


(***************************************************************************)
(* Control-file specification: one call of generate_control_file.          *)
(***************************************************************************)
\* Largest payload size, in bytes, that the specification draws.
MaxBytes == 2100

\* Longest short and long description, in characters.
MaxShort == 2
MaxLong == 5

DescChars == {"a", " ", "\n", "\r"}

BinaryArchs == {"x86", "x86_64", "arm", "aarch64", "riscv64"}

BaseSettings ==
    [bundle_name |-> <<"F", "o", "o", " ", "B", "a", "r">>,
     version_string |-> "1.2.3",
     binary_arch |-> "x86_64",
     authors |-> <<"Ferris">>,
     homepage_url |-> "",
     debian_dependencies |-> "",
     short_description |-> <<"a">>,
     long_description |-> <<>>]

\* The settings vary one field at a time; the payload size varies with the
\* base settings.
SettingsInputs ==
    {[BaseSettings EXCEPT !.short_description = s] : s \in SeqsUpTo(DescChars, MaxShort)}
    \cup {[BaseSettings EXCEPT !.long_description = <<s>>] : s \in SeqsUpTo(DescChars, MaxLong)}
    \cup {[BaseSettings EXCEPT !.binary_arch = a] : a \in BinaryArchs}
    \cup {[BaseSettings EXCEPT !.authors = <<>>, !.homepage_url = "https://example.org",
                               !.debian_dependencies = "libc6, libgtk-3-0"]}

CtlInit ==
    /\ k_pc = "input"
    /\ \/ k_settings \in SettingsInputs /\ k_total \in {0, 1, 1024, 1025}
       \/ k_settings = BaseSettings /\ k_total \in 0..MaxBytes
    /\ k_file = <<>>
    /\ PathIdle
    /\ CatIdle
    /\ BundleIdle
    /\ FileIdle
    /\ ManIdle
    /\ EditIdle

GenerateControlFile ==
    /\ k_pc = "input"
    /\ k_file' = ControlFile(k_settings, DebArch(k_settings.binary_arch), k_total)
    /\ k_pc' = "written"
    /\ UNCHANGED <<k_settings, k_total, pathVars, catVars, bundleVars, fileVars, manVars, editVars>>

CtlNext == GenerateControlFile

SpecControl == CtlInit /\ [][CtlNext]_vars

FieldLine(key) == k_file[CHOOSE i \in 1..Len(k_file) : k_file[i].key = key]

\* C8: Installed-Size is ceil(total payload bytes / 1024): 1 byte gives 1,
\* 1024 bytes give 1, 1025 bytes give 2, and for every total n > 0 the value
\* v satisfies 1024*(v-1) < n <= 1024*v.
C8_InstalledSizeCeil ==
    k_pc = "written" =>
        LET v == FieldLine("Installed-Size").num
        IN  /\ Cardinality({i \in 1..Len(k_file) : k_file[i].key = "Installed-Size"}) = 1
            /\ (k_total = 0 => v = 0)
            /\ (k_total > 0 => 1024 * (v - 1) < k_total /\ k_total <= 1024 * v)
            /\ (k_total = 1 => v = 1)
            /\ (k_total = 1024 => v = 1)
            /\ (k_total = 1025 => v = 2)

\* A payload of 1025 bytes has been given Installed-Size 2.
C8_Witness ==
    /\ k_pc = "written"
    /\ k_total = 1025
    /\ \E i \in 1..Len(k_file) : k_file[i].key = "Installed-Size" /\ k_file[i].num = 2

\* The description block stated on the raw text: the number of the line a
\* position of the text lies on, and the positions that hold a character
\* other than whitespace.
LineNo(s, p) == 1 + Cardinality({q \in 1..(p - 1) : s[q] = "\n"})
Inked(s) == {p \in 1..Len(s) : ~IsWhitespace(s[p])}
InkedOn(s, n) == {p \in Inked(s) : LineNo(s, p) = n}
MinSet(S) == CHOOSE x \in S : \A y \in S : x <= y
MaxSet(S) == CHOOSE x \in S : \A y \in S : x >= y

Continuation == SelectSeq(k_file, LAMBDA l : l.key = "")

\* C9: an empty or whitespace-only short description is written as
\* `(none)`; an absent, empty or whitespace-only long description is written
\* as `(none)`; every line of the long description is written with exactly
\* one leading space; every blank line inside it is written as ` .`.
C9_DescriptionBlock ==
    k_pc = "written" =>
        LET short == k_settings.short_description
            long == IF k_settings.long_description = <<>> THEN <<>>
                    ELSE k_settings.long_description[1]
            first == LineNo(long, MinSet(Inked(long)))
            last == LineNo(long, MaxSet(Inked(long)))
        IN  /\ (Inked(short) = {} <=> FieldLine("Description").text = Placeholder)
            /\ (Inked(short) # {} =>
                    FieldLine("Description").text
                        = SubSeq(short, MinSet(Inked(short)), MaxSet(Inked(short))))
            /\ \A i \in 1..Len(Continuation) :
                   /\ Len(Continuation[i].text) >= 2
                   /\ Continuation[i].text[1] = " "
                   /\ ~IsWhitespace(Continuation[i].text[2])
            /\ (Inked(long) = {} => Continuation = <<Line("", "", 0, <<" ">> \o Placeholder)>>)
            /\ (Inked(long) # {} =>
                    /\ Len(Continuation) = last - first + 1
                    /\ \A n \in first..last :
                           Continuation[n - first + 1].text =
                               IF InkedOn(long, n) = {} THEN <<" ", ".">>
                               ELSE <<" ">> \o SubSeq(long, MinSet(InkedOn(long, n)),
                                                      MaxSet(InkedOn(long, n))))

\* A long description with a whitespace-only line between two lines of text
\* has been written, the line between as ` .`.
C9_Witness ==
    /\ k_pc = "written"
    /\ k_settings.long_description = <<<<"a", "\n", " ", "\n", "a">>>>
    /\ Continuation = << Line("", "", 0, <<" ", "a">>),
                         Line("", "", 0, <<" ", ".">>),
                         Line("", "", 0, <<" ", "a">>) >>

(***************************************************************************)
(* Assembly specification: one run of bundle_project, step by step, with   *)
(* an I/O error possible at every step.                                    *)
(***************************************************************************)
\* Longest resource enumeration that the assembly specification draws.
MaxResources == 2

Abs(segs) == [prefix |-> "", root |-> TRUE, segs |-> segs]

\* What settings.resource_files() yields for one item: a path to a file, a
\* path to nothing, or a failure.
ResourceItems ==
    {[ok |-> TRUE, exists |-> TRUE, path |-> q, error |-> ""] :
        q \in {Rel(<<"data", "icon.png">>), Rel(<<"..", "x">>), Rel(<<"_up_", "x">>),
               Abs(<<"a">>)}}
    \cup {[ok |-> TRUE, exists |-> FALSE, path |-> Rel(<<"gone">>), error |-> ""]}
    \cup {[ok |-> FALSE, exists |-> FALSE, path |-> NoPath, error |-> err] :
              err \in {"glob error", "pattern error"}}

\* A faulty variant of ItemError: the error is replaced by a general one.
ItemErrorGeneral(item) == "io"

\* `let src = src?;`: the error returned is the one the item carries.
ItemError(item) == item.error

\* The settings of a run: every architecture token, and a bundle name that
\* is or is not the binary's name.
BundleSettings ==
    {[BaseSettings EXCEPT !.binary_arch = a, !.bundle_name = n] :
        a \in BinaryArchs, n \in {<<"f", "o", "o">>, <<"F", "o", "o", " ", "B", "a", "r">>}}

\* What an earlier run left at package_dir: a run that failed while staging,
\* or a run that completed.
Leftover(name) == File("leftover", name, NoPath, {}, {})
StaleFailed ==
    WriteFile(WriteFile(EmptyTree,
        Join(ResourceDir, Rel(<<"old.dat">>)), Leftover("old.dat")),
        Join(ControlDir, Rel(<<"postinst">>)), Leftover("postinst"))
StaleComplete ==
    WriteFile(WriteFile(WriteFile(EmptyTree,
        DebianBinaryPath, Leftover("debian-binary")),
        TarGzPath(ControlDir), Leftover("control.tar.gz")),
        TarGzPath(DataDir), Leftover("data.tar.gz"))

OldArtifact == Container("earlier", <<[name |-> "debian-binary", data |-> Leftover("debian-binary")]>>)

Init ==
    /\ pc = "start"
    /\ settings \in BundleSettings
    /\ resources \in SeqsUpTo(ResourceItems, MaxResources)
    /\ ri = 1
    /\ existed = FALSE
    /\ staging \in {EmptyTree, StaleFailed, StaleComplete}
    /\ artifact \in {NoArtifact, OldArtifact}
    /\ result = Running
    /\ PathIdle
    /\ CatIdle
    /\ CtlIdle
    /\ FileIdle
    /\ ManIdle
    /\ EditIdle

Others == <<pathVars, catVars, ctlVars, fileVars, manVars, editVars>>

\* The architecture name: the match at the head of bundle_project.
Arch == DebArch(settings.binary_arch)

\* Lines 35-58: the names are computed, the banner is printed, and a
\* staging directory that exists is removed.
RemoveStaging ==
    /\ pc = "start"
    /\ existed' = (staging # EmptyTree)
    /\ staging' = IF staging # EmptyTree THEN remove_dir_all(staging) ELSE staging
    /\ pc' = "copy_binary"
    /\ UNCHANGED <<settings, resources, ri, artifact, result, Others>>

\* file::copy(settings.binary_path(), &binary_dest)
CopyBinary ==
    /\ pc = "copy_binary"
    /\ staging' = WriteFile(staging, BinaryDest, File("copy", "", BinaryPath, {}, {}))
    /\ pc' = IF resources = <<>> THEN "icons" ELSE "transfer"
    /\ UNCHANGED <<settings, existed, resources, ri, artifact, result, Others>>

StagedAt(src) == Join(ResourceDir, resource_relpath(src))

\* One turn of the loop of transfer_resource_files: a failed item is
\* returned as the error, a source that cannot be read fails the copy, and a
\* copy replaces whatever the destination held.
TransferResource ==
    /\ pc = "transfer"
    /\ ri <= Len(resources)
    /\ LET src == resources[ri]
       IN  IF ~src.ok
           THEN /\ pc' = "failed"
                /\ result' = Failed(ItemError(src))
                /\ UNCHANGED <<ri, staging>>
           ELSE IF ~src.exists
           THEN /\ pc' = "failed"
                /\ result' = Failed("io")
                /\ UNCHANGED <<ri, staging>>
           ELSE /\ staging' = WriteFile(staging, StagedAt(src.path),
                                        File("copy", "", src.path, {}, {}))
                /\ ri' = ri + 1
                /\ pc' = IF ri = Len(resources) THEN "icons" ELSE "transfer"
                /\ UNCHANGED result
    /\ UNCHANGED <<settings, existed, resources, artifact, Others>>

GenerateIcons ==
    /\ pc = "icons"
    /\ staging' = WriteFile(staging, IconPath, File("icon", "", NoPath, {}, {}))
    /\ pc' = "desktop"
    /\ UNCHANGED <<settings, existed, resources, ri, artifact, result, Others>>

GenerateDesktop ==
    /\ pc = "desktop"
    /\ staging' = WriteFile(staging, DesktopPath, File("desktop", "", NoPath, {}, {}))
    /\ pc' = "control"
    /\ UNCHANGED <<settings, existed, resources, ri, artifact, result, Others>>

\* generate_control_file: the control file describes the payload that
\* total_dir_size measures at this point.
GenerateControl ==
    /\ pc = "control"
    /\ staging' = WriteFile(staging, Join(ControlDir, Rel(<<"control">>)),
                            File("control",
                                 ControlFile(settings, Arch, total_dir_size(staging, DataDir)),
                                 NoPath, Under(staging, DataDir), {}))
    /\ pc' = "md5sums"
    /\ UNCHANGED <<settings, existed, resources, ri, artifact, result, Others>>

\* generate_md5sums: one entry for each file below data_dir.
GenerateMd5sums ==
    /\ pc = "md5sums"
    /\ staging' = WriteFile(staging, Join(ControlDir, Rel(<<"md5sums">>)),
                            File("md5sums", "", NoPath, Under(staging, DataDir), {}))
    /\ pc' = "debian_binary"
    /\ UNCHANGED <<settings, existed, resources, ri, artifact, result, Others>>

\* create_file_with_data(&debian_binary_path, "2.0\n")
CreateDebianBinary ==
    /\ pc = "debian_binary"
    /\ staging' = create_file_with_data(staging, DebianBinaryPath, "2.0\n")
    /\ pc' = "tar_control"
    /\ UNCHANGED <<settings, existed, resources, ri, artifact, result, Others>>

TarControl ==
    /\ pc = "tar_control"
    /\ staging' = tar_and_gzip_dir(staging, ControlDir)
    /\ pc' = "tar_data"
    /\ UNCHANGED <<settings, existed, resources, ri, artifact, result, Others>>

TarData ==
    /\ pc = "tar_data"
    /\ staging' = tar_and_gzip_dir(staging, DataDir)
    /\ pc' = "archive_create"
    /\ UNCHANGED <<settings, existed, resources, ri, artifact, result, Others>>

\* create_archive: file::create(dest) creates the file, or empties the one
\* that is there.
ArchiveCreate ==
    /\ pc = "archive_create"
    /\ artifact' = Container("this", <<>>)
    /\ pc' = "archive_append"
    /\ UNCHANGED <<settings, existed, resources, ri, staging, result, Others>>

\* create_archive: one turn of the loop over srcs; a source that does not
\* exist fails the append.
ArchiveAppend ==
    /\ pc = "archive_append"
    /\ LET n == Len(artifact[1].members)
       IN  /\ n < Len(ArchiveSrcs)
           /\ IF ArchiveSrcs[n + 1] \in DOMAIN staging
              THEN /\ artifact' = Container("this", Append(artifact[1].members,
                                                Member(staging, ArchiveSrcs[n + 1])))
                   /\ pc' = IF n + 1 = Len(ArchiveSrcs) THEN "archive_flush"
                            ELSE "archive_append"
                   /\ UNCHANGED result
              ELSE /\ pc' = "failed"
                   /\ result' = Failed("io")
                   /\ UNCHANGED artifact
    /\ UNCHANGED <<settings, existed, resources, ri, staging, Others>>

\* create_archive: the flush, then Ok(vec![package_path]).
ArchiveFlush ==
    /\ pc = "archive_flush"
    /\ pc' = "done"
    /\ result' = Succeeded(PackagePath(settings, Arch))
    /\ UNCHANGED <<settings, existed, resources, ri, staging, artifact, Others>>

\* Any step fails with an I/O error and `?` returns it. A turn of the
\* transfer loop whose item is a failure, or names nothing, fails on its own.
IoError ==
    /\ pc \notin {"idle", "done", "failed"}
    /\ pc = "transfer" => resources[ri].ok /\ resources[ri].exists
    /\ pc' = "failed"
    /\ result' = Failed("io")
    /\ UNCHANGED <<settings, existed, resources, ri, staging, artifact, Others>>

Next ==
    \/ RemoveStaging
    \/ CopyBinary
    \/ TransferResource
    \/ GenerateIcons
    \/ GenerateDesktop
    \/ GenerateControl
    \/ GenerateMd5sums
    \/ CreateDebianBinary
    \/ TarControl
    \/ TarData
    \/ ArchiveCreate
    \/ ArchiveAppend
    \/ ArchiveFlush
    \/ IoError

Spec == Init /\ [][Next]_vars

\* The file a path denotes, read lexically: the drive (the current one when
\* the path names none), and the names from the root after "." and ".." are
\* resolved, a relative path starting from the working directory.
CurrentDrive == "C:"
WorkingDir == <<"home", "proj">>

RECURSIVE Resolve_(_, _)
Resolve_(at, comps) ==
    IF comps = <<>> THEN at
    ELSE LET c == Head(comps)
         IN  Resolve_(CASE c.kind = "Prefix"    -> at
                        [] c.kind = "RootDir"   -> <<>>
                        [] c.kind = "CurDir"    -> at
                        [] c.kind = "ParentDir" -> IF at = <<>> THEN at
                                                   ELSE SubSeq(at, 1, Len(at) - 1)
                        [] OTHER                -> Append(at, c.name),
                      Tail(comps))

Denote(path) ==
    [drive |-> IF path.prefix = "" THEN CurrentDrive ELSE path.prefix,
     names |-> Resolve_(WorkingDir, Components(path))]

Transferred == {i \in 1..Len(resources) : i < ri}

\* C3: resource_relpath is injective on path meaning: two resources that
\* denote different files are never staged at the same destination.
C3_Injective ==
    \A i, j \in Transferred :
        Denote(resources[i].path) # Denote(resources[j].path)
            => /\ resource_relpath(resources[i].path) # resource_relpath(resources[j].path)
               /\ StagedAt(resources[i].path) # StagedAt(resources[j].path)

\* The three members of a finished container.
IsLayout(members) ==
    /\ Len(members) = 3
    /\ members[1].name = "debian-binary"
    /\ members[1].data.kind = "text"
    /\ members[1].data.text = "2.0\n"
    /\ members[2].name = "control.tar.gz"
    /\ members[2].data.kind = "tar.gz"
    /\ {e.file.kind : e \in members[2].data.packs} = {"control", "md5sums"}
    /\ members[3].name = "data.tar.gz"
    /\ members[3].data.kind = "tar.gz"
    /\ \E e \in members[3].data.packs : e.path = BinaryDest

\* C10: on every successful run the container at the final artifact path
\* has exactly three members in this order: debian-binary holding "2.0\n",
\* the control tree archive, the data tree archive; the marker and both
\* tree archives exist in the staging directory when the container is
\* created; and each step of create_archive appends the next of the
\* supplied sources after the members already written.
C10_ContainerLayout ==
    /\ [](result.state = "ok" =>
            /\ artifact # NoArtifact
            /\ artifact[1].run = "this"
            /\ IsLayout(artifact[1].members))
    /\ [][/\ (pc = "archive_create" /\ artifact' # artifact =>
                  /\ artifact' = Container("this", <<>>)
                  /\ {DebianBinaryPath, TarGzPath(ControlDir), TarGzPath(DataDir)}
                         \subseteq DOMAIN staging
                  /\ staging[DebianBinaryPath].text = "2.0\n")
          /\ (pc = "archive_append" /\ artifact' # artifact =>
                  /\ Len(artifact'[1].members) = Len(artifact[1].members) + 1
                  /\ SubSeq(artifact'[1].members, 1, Len(artifact[1].members))
                         = artifact[1].members
                  /\ artifact'[1].members[Len(artifact'[1].members)]
                         = Member(staging, ArchiveSrcs[Len(artifact'[1].members)]))
          /\ (pc \notin {"archive_create", "archive_append"} => artifact' = artifact)]_vars

\* A run with a resource has succeeded and its container holds the three
\* members.
C10_Witness ==
    /\ pc = "done"
    /\ result.state = "ok"
    /\ resources # <<>>
    /\ artifact # NoArtifact
    /\ [i \in 1..Len(artifact[1].members) |-> artifact[1].members[i].name]
           = <<"debian-binary", "control.tar.gz", "data.tar.gz">>

LeftoversIn(tree) ==
    {q \in DOMAIN tree : tree[q].kind = "leftover"}
    \cup {q \in DOMAIN tree : \E e \in tree[q].packs : e.file.kind = "leftover"}

\* C11: a staging directory left by an earlier run, complete or failed, is
\* removed whole before the first staging write, and its presence is no
\* error: when the binary is about to be copied the staging directory is
\* empty and the run has not failed; a file of the earlier run is never in
\* the staging directory together with a file of this run (it is there
\* only before the removal, or after the removal itself failed), and never
\* in a tree archive or in the container of this run.
C11_CleanStart ==
    /\ (pc = "copy_binary" => staging = EmptyTree /\ result = Running)
    /\ (pc # "idle" /\ LeftoversIn(staging) # {} =>
            /\ pc \in {"start", "failed"}
            /\ \A q \in DOMAIN staging : staging[q].kind = "leftover"
            /\ artifact \in {NoArtifact, OldArtifact})
    /\ (artifact # NoArtifact /\ artifact[1].run = "this" =>
            \A i \in 1..Len(artifact[1].members) :
                /\ artifact[1].members[i].data.kind # "leftover"
                /\ \A e \in artifact[1].members[i].data.packs : e.file.kind # "leftover")

\* A run that found a staging directory has succeeded.
C11_Witness ==
    /\ pc = "done"
    /\ existed
    /\ result.state = "ok"
    /\ Len(artifact[1].members) = 3

\* C12: an error at any step ends the run with that error, and after a run,
\* failed or not, the file at the final artifact path is the full container
\* of this run or is not there. (A file that an earlier run left there and
\* that this run never touched is let pass.)
C12_NoPartialArtifact ==
    /\ (pc = "failed" => result.state = "err")
    /\ (pc \in {"done", "failed"} =>
            \/ artifact = NoArtifact
            \/ artifact = OldArtifact
            \/ artifact[1].run = "this" /\ IsLayout(artifact[1].members))

\* The files a run has staged when the transfer loop stands at item i: the
\* binary and the resources before i.
StagedBefore(i) ==
    {BinaryDest} \cup {StagedAt(resources[j].path) : j \in {j \in 1..Len(resources) : j < i}}

\* C13: when the enumeration of resources yields a failure, the turn of the
\* loop that meets it returns exactly the error of that item and copies
\* nothing; the run has then failed with that error, it holds the binary and
\* the resources before that item and nothing else (no later resource, no
\* icon, desktop entry, control file, manifest, marker or archive), the
\* container was not touched, and no step follows.
C13_EnumerationFailure ==
    /\ [](\A i \in 1..Len(resources) :
            ~resources[i].ok /\ ri = i /\ result.state = "err"
                /\ result.error # "io" =>
                    /\ pc = "failed"
                    /\ result = Failed(resources[i].error)
                    /\ DOMAIN staging = StagedBefore(i)
                    /\ artifact \in {NoArtifact, OldArtifact})
    /\ [][/\ (pc = "transfer" /\ ~resources[ri].ok =>
                  /\ pc' = "failed"
                  /\ result' = Failed(resources[ri].error)
                  /\ staging' = staging
                  /\ artifact' = artifact)
          /\ pc # "failed"]_vars

\* The second item of the enumeration was a failure, met after the first
\* item had been copied, and the run has failed with the error of that item.
C13_Witness ==
    /\ pc = "failed"
    /\ Len(resources) = 2
    /\ resources[1].ok /\ resources[1].exists
    /\ ~resources[2].ok
    /\ ri = 2
    /\ result = Failed(resources[2].error)
    /\ StagedAt(resources[1].path) \in DOMAIN staging

ControlPath == Join(ControlDir, Rel(<<"control">>))

\* The lines of the control file written by this run with the given field.
ControlLines(key) ==
    SelectSeq(staging[ControlPath].text, LAMBDA l : l.key = key)

\* The architecture table as the specification gives it.
TableArch(token) ==
    IF token = "x86" THEN "i386"
    ELSE IF token = "x86_64" THEN "amd64"
    ELSE IF token = "arm" THEN "armhf"
    ELSE IF token = "aarch64" THEN "arm64"
    ELSE token

\* C18: for the binary `foo`, version `1.2.3` and token `x86_64` the control
\* file holds `Package: foo`, `Version: 1.2.3` and `Architecture: amd64`;
\* for every token the Architecture line holds the token mapped by the
\* table, the artifact is named <name>_<version>_<arch>.deb with the same
\* mapped token, and a successful run returns that one path.
C18_ControlAndName ==
    /\ (ControlPath \in DOMAIN staging =>
            /\ Len(ControlLines("Package")) = 1
            /\ ControlLines("Package")[1].text = <<"f", "o", "o">>
            /\ Len(ControlLines("Version")) = 1
            /\ ControlLines("Version")[1].word = "1.2.3"
            /\ Len(ControlLines("Architecture")) = 1
            /\ ControlLines("Architecture")[1].word = TableArch(settings.binary_arch)
            /\ (settings.binary_arch = "x86_64" =>
                    ControlLines("Architecture")[1].word = "amd64"))
    /\ (result.state = "ok" =>
            result.paths = <<[dir |-> "bundle/deb",
                              name |-> <<"foo", "1.2.3", TableArch(settings.binary_arch)>>,
                              ext |-> "deb"]>>)

\* C18, amended: the Package line holds the bundle name with spaces turned
\* into hyphens and letters lowercased, which is `foo` when the bundle name
\* is `foo` (the name of the binary does not enter); the Version line holds
\* the version string; the Architecture line holds the token mapped by the
\* table (`amd64` for `x86_64`); the artifact is named
\* <binary name>_<version>_<arch>.deb with the same mapped token, and a
\* successful run returns that one path.
C18_ControlAndNameOfBundle ==
    /\ (ControlPath \in DOMAIN staging =>
            /\ Len(ControlLines("Package")) = 1
            /\ LET name == ControlLines("Package")[1].text
               IN  /\ Len(name) = Len(settings.bundle_name)
                   /\ \A i \in 1..Len(name) :
                          name[i] = IF settings.bundle_name[i] = " " THEN "-"
                                    ELSE LowerChar(settings.bundle_name[i])
                   /\ (settings.bundle_name = <<"f", "o", "o">> => name = <<"f", "o", "o">>)
            /\ Len(ControlLines("Version")) = 1
            /\ ControlLines("Version")[1].word = "1.2.3"
            /\ Len(ControlLines("Architecture")) = 1
            /\ ControlLines("Architecture")[1].word = TableArch(settings.binary_arch)
            /\ (settings.binary_arch = "x86_64" =>
                    ControlLines("Architecture")[1].word = "amd64"))
    /\ (result.state = "ok" =>
            result.paths = <<[dir |-> "bundle/deb",
                              name |-> <<"foo", "1.2.3", TableArch(settings.binary_arch)>>,
                              ext |-> "deb"]>>)

\* The control file of a bundle named `foo` for `x86_64` has been written
\* with `Package: foo` and `Architecture: amd64`.
C18_Witness ==
    /\ pc = "md5sums"
    /\ settings.binary_arch = "x86_64"
    /\ settings.bundle_name = <<"f", "o", "o">>
    /\ ControlLines("Package")[1].text = <<"f", "o", "o">>
    /\ ControlLines("Architecture")[1].word = "amd64"

\* The payload: the files below data_dir, with what they hold.
Payload(tree) == {[path |-> q, file |-> tree[q]] : q \in Under(tree, DataDir)}

RECURSIVE PackedSize(_)
PackedSize(entries) ==
    IF entries = {} THEN 0
    ELSE LET e == CHOOSE x \in entries : TRUE
         IN  FileSize(e.file) + PackedSize(entries \ {e})

Packed(kind) ==
    (CHOOSE e \in artifact[1].members[2].data.packs : e.file.kind = kind).file

\* C20: the steps that write the payload (binary, resources, icons, desktop
\* entry) all come before the control file and the manifest; from the
\* control step on no step changes the payload until the data archive packs
\* it whole; so in the container of a successful run the files the control
\* file measured, the files the manifest lists and the files packed in the
\* data archive are the same, and Installed-Size is the size of the packed
\* files in KiB, rounded up.
C20_PayloadFixed ==
    /\ [][/\ (Payload(staging') # Payload(staging) =>
                  pc \in {"start", "copy_binary", "transfer", "icons", "desktop", "tar_data"})
          /\ (pc = "tar_data" /\ pc' # "failed" =>
                  staging'[TarGzPath(DataDir)].packs = Payload(staging))]_vars
    /\ [](pc \in {"md5sums", "debian_binary", "tar_control"} /\ ControlPath \in DOMAIN staging =>
            staging[ControlPath].lists = Under(staging, DataDir))
    /\ [](result.state = "ok" =>
            LET data == artifact[1].members[3].data.packs
                size == SelectSeq(Packed("control").text,
                                  LAMBDA l : l.key = "Installed-Size")[1].num
            IN  /\ Packed("control").lists = {e.path : e \in data}
                /\ Packed("md5sums").lists = {e.path : e \in data}
                /\ 1024 * size >= PackedSize(data)
                /\ 1024 * (size - 1) < PackedSize(data))

\* A run with two resources has succeeded; its data archive packs the
\* binary, the resources, the icon and the desktop entry, and the manifest
\* lists them.
C20_Witness ==
    /\ pc = "done"
    /\ result.state = "ok"
    /\ Len(resources) = 2
    /\ Cardinality(artifact[1].members[3].data.packs) = 5
    /\ Cardinality(Packed("md5sums").lists) = 5

(***************************************************************************)
(* File specification: calls of file::copy_dir, file::copy and             *)
(* file::create on small file systems.                                     *)
(***************************************************************************)
\* Number of calls made one after another on the same file system.
MaxOps == 1

RootOnly == Put(<<>>, <<>>, Directory)

RECURSIVE PutAll(_, _)
PutAll(fs, items) ==
    IF items = <<>> THEN fs
    ELSE PutAll(Put(fs, Head(items)[1], Head(items)[2]), Tail(items))

\* What may be at `orig`: nothing, a regular file, an empty directory, the
\* tree of tests::copy_dir_with_symlinks, and that tree with a link to a
\* directory.
TestTree ==
    << <<<<"orig">>, Directory>>,
       <<<<"orig", "sub">>, Directory>>,
       <<<<"orig", "sub", "file.txt">>, RegularFile("Hello, world!\n")>>,
       <<<<"orig", "link">>, SymbolicLink(<<"sub", "file.txt">>)>> >>

Sources ==
    { <<>>,
      << <<<<"orig">>, RegularFile("data")>> >>,
      << <<<<"orig">>, Directory>> >>,
      TestTree,
      TestTree \o << <<<<"orig", "dlink">>, SymbolicLink(<<"sub">>)>> >> }

\* What may be at the destination: nothing, the parent, the parent with a
\* directory or a file at the destination, and a file where the parent
\* should be.
Destinations ==
    { <<>>,
      << <<<<"parent">>, Directory>> >>,
      << <<<<"parent">>, Directory>>, <<<<"parent", "copy">>, Directory>> >>,
      << <<<<"parent">>, Directory>>, <<<<"parent", "copy">>, RegularFile("old")>> >>,
      << <<<<"parent">>, RegularFile("old")>> >> }

FromArgs ==
    {<<"orig">>, <<"orig", "sub">>, <<"orig", "sub", "file.txt">>, <<"orig", "link">>,
     <<"none">>}
ToArgs == {<<"parent", "copy">>, <<"parent", "deep", "copy">>, <<"copy">>}

FileInit ==
    /\ f_pc = 0
    /\ f_fs \in {PutAll(PutAll(RootOnly, s), d) : s \in Sources, d \in Destinations}
    /\ f_before = f_fs
    /\ f_op = [name |-> "none", from |-> <<>>, to |-> <<>>]
    /\ f_result = "none"
    /\ PathIdle
    /\ CatIdle
    /\ CtlIdle
    /\ BundleIdle
    /\ ManIdle
    /\ EditIdle

NotFile == <<pathVars, catVars, ctlVars, bundleVars, manVars, editVars>>

ResultOf(outcome) == IF outcome.ok THEN "ok" ELSE "err"

\* The root of the walk is a path that is no link.
CopyDir ==
    /\ f_pc < MaxOps
    /\ f_pc' = f_pc + 1
    /\ f_before' = f_fs
    /\ \E from \in FromArgs \ {<<"orig", "link">>}, to \in ToArgs :
           /\ f_op' = [name |-> "copy_dir", from |-> from, to |-> to]
           /\ f_fs' = copy_dir(f_fs, from, to).fs
           /\ f_result' = ResultOf(copy_dir(f_fs, from, to))
    /\ UNCHANGED NotFile

Copy ==
    /\ f_pc < MaxOps
    /\ f_pc' = f_pc + 1
    /\ f_before' = f_fs
    /\ \E from \in FromArgs, to \in ToArgs :
           /\ f_op' = [name |-> "copy", from |-> from, to |-> to]
           /\ f_fs' = copy(f_fs, from, to).fs
           /\ f_result' = ResultOf(copy(f_fs, from, to))
    /\ UNCHANGED NotFile

Create ==
    /\ f_pc < MaxOps
    /\ f_pc' = f_pc + 1
    /\ f_before' = f_fs
    /\ \E path \in ToArgs \cup {<<"parent", "file.txt">>} :
           /\ f_op' = [name |-> "create", from |-> <<>>, to |-> path]
           /\ f_fs' = create(f_fs, path).fs
           /\ f_result' = ResultOf(create(f_fs, path))
    /\ UNCHANGED NotFile

FileNext == CopyDir \/ Copy \/ Create

SpecFile == FileInit /\ [][FileNext]_vars

IsDirIn(fs, path) == path \in DOMAIN fs /\ fs[path].kind = "dir"

\* C15: copy_dir fails whenever `from` is no directory (a regular file or a
\* missing path) and whenever `to` already exists; it succeeds only when
\* `from` is a directory and `to` does not exist.
C15_CopyDirFails ==
    f_op.name = "copy_dir" =>
        /\ (~IsDirIn(f_before, f_op.from) => f_result = "err")
        /\ (f_op.to \in DOMAIN f_before => f_result = "err")
        /\ (f_result = "ok" => IsDirIn(f_before, f_op.from) /\ f_op.to \notin DOMAIN f_before)

\* A copy_dir of a directory onto a destination that exists has failed.
C15_Witness ==
    /\ f_op.name = "copy_dir"
    /\ IsDirIn(f_before, f_op.from)
    /\ f_op.to \in DOMAIN f_before
    /\ f_result = "err"

\* C16: after a successful copy_dir, `to` and all its ancestors are
\* directories, and every entry below `from` has at the same relative path
\* below `to` a directory for a directory, a regular file with the same
\* bytes for a regular file, and a symbolic link with the same target
\* string for a symbolic link.
C16_CopyDirReplicates ==
    f_op.name = "copy_dir" /\ f_result = "ok" =>
        /\ \A a \in Ancestors(f_op.to) \cup {f_op.to} : IsDirIn(f_fs, a)
        /\ \A q \in DOMAIN f_before :
               Len(q) >= Len(f_op.from) /\ SubSeq(q, 1, Len(f_op.from)) = f_op.from =>
                   LET d == f_op.to \o SubSeq(q, Len(f_op.from) + 1, Len(q))
                   IN  /\ d \in DOMAIN f_fs
                       /\ f_fs[d].kind = f_before[q].kind
                       /\ f_fs[d].bytes = f_before[q].bytes
                       /\ f_fs[d].target = f_before[q].target

\* The tree of the test has been copied below a parent that did not exist,
\* and the link in the copy has the target string of the original.
C16_Witness ==
    /\ f_op = [name |-> "copy_dir", from |-> <<"orig">>, to |-> <<"parent", "deep", "copy">>]
    /\ f_result = "ok"
    /\ <<"parent">> \notin DOMAIN f_before
    /\ <<"parent", "deep", "copy", "link">> \in DOMAIN f_fs
    /\ <<"parent", "deep", "copy", "sub", "file.txt">> \in DOMAIN f_fs
    /\ f_fs[<<"parent", "deep", "copy", "link">>] = SymbolicLink(<<"sub", "file.txt">>)
    /\ f_fs[<<"parent", "deep", "copy", "sub", "file.txt">>] = RegularFile("Hello, world!\n")

\* No ancestor of the path is something other than a directory, and the
\* path itself is absent or a regular file.
Writable(fs, path) ==
    /\ \A a \in Ancestors(path) : a \in DOMAIN fs => fs[a].kind = "dir"
    /\ path \in DOMAIN fs => fs[path].kind = "file"

\* C17: file::copy fails when `from` is missing or is a directory;
\* otherwise (the destination being writable) it creates the missing
\* ancestors of `to` and leaves `to` a regular file with the bytes of
\* `from`, replacing what was there. file::create creates the missing
\* parents and then the file.
C17_CopyAndCreate ==
    /\ (f_op.name = "copy" =>
            LET src == Follow(f_before, f_op.from, 2)
            IN  /\ (src \notin DOMAIN f_before \/ f_before[src].kind = "dir" =>
                        f_result = "err")
                /\ (src \in DOMAIN f_before /\ f_before[src].kind = "file"
                        /\ Writable(f_before, f_op.to) =>
                            /\ f_result = "ok"
                            /\ \A a \in Ancestors(f_op.to) : IsDirIn(f_fs, a)
                            /\ f_fs[f_op.to] = RegularFile(f_before[src].bytes)))
    /\ (f_op.name = "create" /\ Writable(f_before, f_op.to) =>
            /\ f_result = "ok"
            /\ \A a \in Ancestors(f_op.to) : IsDirIn(f_fs, a)
            /\ f_fs[f_op.to].kind = "file")

\* A file has been copied over a file that was there, below a parent that
\* was there.
C17_Witness ==
    /\ f_op = [name |-> "copy", from |-> <<"orig", "sub", "file.txt">>, to |-> <<"parent", "copy">>]
    /\ <<"parent", "copy">> \in DOMAIN f_before
    /\ f_before[<<"parent", "copy">>] = RegularFile("old")
    /\ f_result = "ok"
    /\ <<"parent", "copy">> \in DOMAIN f_fs
    /\ f_fs[<<"parent", "copy">>] = RegularFile("Hello, world!\n")

(***************************************************************************)
(* Manifest specification: generate_md5sums runs over one payload, each    *)
(* run under an enumeration order of the file system.                      *)
(***************************************************************************)
\* Number of runs over the same payload.
MaxRuns == 2

\* What the payload may hold.
PayloadEntries ==
    << <<<<"usr">>, Directory>>,
       <<<<"usr", "bin">>, Directory>>,
       <<<<"usr", "bin", "foo">>, RegularFile("ELF")>>,
       <<<<"usr", "lib">>, Directory>>,
       <<<<"usr", "lib", "a">>, RegularFile("A")>>,
       <<<<"usr", "lib", NonUtf8Name>>, RegularFile("B")>>,
       <<<<"readme">>, RegularFile("A")>> >>

\* The payloads: the root with any choice of the entries in which every
\* entry has its parent.
Payloads ==
    LET Chosen(S) == SelectSeq(PayloadEntries, LAMBDA it : it[1] \in S)
        paths == {PayloadEntries[i][1] : i \in 1..Len(PayloadEntries)}
    IN  {PutAll(RootOnly, Chosen(S)) :
            S \in {T \in SUBSET paths : \A q \in T : Len(q) > 1 => Parent(q) \in T}}

\* Orders in which a file system may enumerate names.
NameOrders ==
    { <<"a", "bin", NonUtf8Name, "foo", "lib", "readme", "usr">>,
      <<"usr", "readme", "lib", "foo", NonUtf8Name, "bin", "a">>,
      <<"lib", "usr", "a", "readme", "bin", "foo", NonUtf8Name>> }

ManInit ==
    /\ m_pc = "ready"
    /\ m_tree \in Payloads
    /\ m_runs = <<>>
    /\ PathIdle
    /\ CatIdle
    /\ CtlIdle
    /\ BundleIdle
    /\ FileIdle
    /\ EditIdle

GenerateManifest ==
    /\ m_pc = "ready"
    /\ Len(m_runs) < MaxRuns
    /\ \E order \in NameOrders :
           m_runs' = Append(m_runs, generate_md5sums(m_tree, order))
    /\ UNCHANGED <<m_pc, m_tree, pathVars, catVars, ctlVars, bundleVars, fileVars, editVars>>

ManNext == GenerateManifest

SpecManifest == ManInit /\ [][ManNext]_vars

RegularFiles(tree) == {q \in DOMAIN tree : tree[q].kind = "file"}

HexValue(c) == CHOOSE v \in 0..15 : HexDigits[v + 1] = c

\* A line read back: 32 hex characters that spell the 16 bytes of the
\* digest of the file, two spaces, and the names of the path with
\* separators between.
IsLineFor(line, tree, path) ==
    /\ Len(line) = 32 + 2 + (2 * Len(path) - 1)
    /\ \A i \in 1..32 : \E v \in 0..15 : HexDigits[v + 1] = line[i]
    /\ \A i \in 1..16 :
           16 * HexValue(line[2 * i - 1]) + HexValue(line[2 * i])
               = generate_md5sum(tree[path].bytes)[i]
    /\ line[33] = " " /\ line[34] = " "
    /\ \A i \in 1..Len(path) : line[34 + 2 * i - 1] = path[i]
    /\ \A i \in 1..(Len(path) - 1) : line[34 + 2 * i] = "/"

\* C14: a run that succeeds has written exactly one line for every regular
\* file of the payload and none for a directory, each line the digest as 32
\* lowercase hex characters, two spaces and the path relative to the payload
\* root; a run over a payload with a file whose path is no text fails.
C14_ManifestLines ==
    \A r \in 1..Len(m_runs) :
        /\ (m_runs[r].ok <=> \A q \in RegularFiles(m_tree) : to_str_ok(q))
        /\ (m_runs[r].ok =>
                /\ Len(m_runs[r].lines) = Cardinality(RegularFiles(m_tree))
                /\ \A q \in RegularFiles(m_tree) :
                       Cardinality({i \in 1..Len(m_runs[r].lines) :
                                        IsLineFor(m_runs[r].lines[i], m_tree, q)}) = 1)

\* A payload with a directory tree and three files has been written as three
\* lines.
C14_Witness ==
    /\ Len(m_runs) >= 1
    /\ m_runs[1].ok
    /\ Cardinality(RegularFiles(m_tree)) = 3
    /\ Len(m_runs[1].lines) = 3
    /\ <<"usr", "bin">> \in DOMAIN m_tree

\* C19: two runs over the same payload write the same sequence of lines,
\* whatever the order in which the file system enumerates directory
\* entries.
C19_SameOrder ==
    \A r, s \in 1..Len(m_runs) :
        m_runs[r].ok /\ m_runs[s].ok => m_runs[r].lines = m_runs[s].lines

(***************************************************************************)
(* Respelling specification: Category::from_str on a string and on the     *)
(* string with the case of one letter changed, or a space or hyphen        *)
(* inserted or deleted.                                                    *)
(***************************************************************************)
\* The letter in the other case.
OtherCase(c) ==
    IF \E i \in DOMAIN UpperChars : UpperChars[i] = c
    THEN LowerChars[CHOOSE i \in DOMAIN UpperChars : UpperChars[i] = c]
    ELSE IF \E i \in DOMAIN LowerChars : LowerChars[i] = c
    THEN UpperChars[CHOOSE i \in DOMAIN LowerChars : LowerChars[i] = c]
    ELSE c

\* The respellings of a string: the case of the letter at a position
\* changed, a space or hyphen inserted after a position (0: in front), the
\* space or hyphen at a position deleted.
Edits(s) ==
    {[kind |-> "case", at |-> i, char |-> OtherCase(s[i])] :
        i \in {j \in 1..Len(s) : OtherCase(s[j]) # s[j]}}
    \cup {[kind |-> "insert", at |-> i, char |-> c] : i \in 0..Len(s), c \in {" ", "-"}}
    \cup {[kind |-> "delete", at |-> i, char |-> s[i]] :
            i \in {j \in 1..Len(s) : s[j] \in {" ", "-"}}}

ApplyEdit(s, edit) ==
    CASE edit.kind = "case" -> [s EXCEPT ![edit.at] = edit.char]
      [] edit.kind = "insert" ->
             SubSeq(s, 1, edit.at) \o <<edit.char>> \o SubSeq(s, edit.at + 1, Len(s))
      [] edit.kind = "delete" -> DeleteAt(s, edit.at)
      [] OTHER -> s

\* The strings that are respelt: strings of the tests, taxonomy strings,
\* canonical names, table keys, and the prefix in other spellings.
EditInputs ==
    TestStrings
    \cup {osx_application_category_type(c) : c \in {"Game", "RolePlayingGame", "DeveloperTool"}}
    \cup {canonical(c) : c \in {"Game", "RolePlayingGame", "GraphicsAndDesign"}}
    \cup { <<"r", "p", "g">>,
           <<"R", "P", "G">>,
           <<"D", "e", "v", "e", "l", "o", "p", "m", "e", "n", "t">>,
           <<"L", "o", "g", "i", "c", "G", "a", "m", "e">>,
           <<"p", "u", "b", "l", "i", "c", ".", "a", "p", "p", "c", "a", "t", "e", "g", "o", "r", "y", ".",
             "g", "a", "m", "e", "s">>,
           <<"P", "u", "b", "l", "i", "c", ".", "A", "p", "p", "-", "C", "a", "t", "e", "g", "o", "r", "y", ".",
             "k", "i", "d", "s", " ", "g", "a", "m", "e">>,
           <<"p", "u", "b", "l", "i", "c", ".", "a", "p", "p", "-", "c", "a", "t", "e", "g", "o", "r", "y", ".",
             "g", "a", "m", "i", "n", "g">> }

EditInit ==
    /\ e_pc = "input"
    /\ e_input \in EditInputs
    /\ e_result = Err(<<>>)
    /\ e_edit = NoEdit
    /\ e_edited = <<>>
    /\ e_edited_result = Err(<<>>)
    /\ PathIdle
    /\ CatIdle
    /\ CtlIdle
    /\ BundleIdle
    /\ FileIdle
    /\ ManIdle

ResolveInput ==
    /\ e_pc = "input"
    /\ e_result' = from_str(e_input)
    /\ e_pc' = "resolved"
    /\ UNCHANGED <<e_input, e_edit, e_edited, e_edited_result,
                   pathVars, catVars, ctlVars, bundleVars, fileVars, manVars>>

ResolveEdited ==
    /\ e_pc = "resolved"
    /\ \E edit \in Edits(e_input) :
           /\ e_edit' = edit
           /\ e_edited' = ApplyEdit(e_input, edit)
           /\ e_edited_result' = from_str(ApplyEdit(e_input, edit))
    /\ e_pc' = "edited"
    /\ UNCHANGED <<e_input, e_result,
                   pathVars, catVars, ctlVars, bundleVars, fileVars, manVars>>

EditNext == ResolveInput \/ ResolveEdited

SpecEdit == EditInit /\ [][EditNext]_vars

\* The lowercased string starts with the taxonomy prefix.
HasPrefix(s) == starts_with(to_ascii_lowercase(s), OSX_APP_CATEGORY_PREFIX)

\* C22: changing the case of a letter, or inserting or deleting a space or
\* hyphen at any position of the input (before or inside a leading
\* `public.app-category.` included), does not change what from_str returns.
C22_Invariant ==
    e_pc = "edited" => e_edited_result = e_result

\* C22, amended: changing the case of a letter anywhere does not change
\* what from_str returns, and neither does inserting or deleting a space or
\* hyphen unless it changes whether the lowercased input starts with
\* `public.app-category.`: after a leading prefix, or anywhere in an input
\* that has no such prefix and gains none.
C22_InvariantOutsidePrefix ==
    (/\ e_pc = "edited"
     /\ (e_edit.kind = "case" \/ HasPrefix(e_edited) = HasPrefix(e_input)))
        => e_edited_result = e_result

\* A hyphen has been inserted after the prefix of a taxonomy string, and the
\* category is the one the string had.
C22_Witness ==
    /\ e_pc = "edited"
    /\ HasPrefix(e_input)
    /\ e_edit.kind = "insert"
    /\ e_edit.char = "-"
    /\ e_edit.at > Len(OSX_APP_CATEGORY_PREFIX)
    /\ e_edited # e_input
    /\ e_result.ok
    /\ e_edited_result = e_result

====
